---- MODULE Spec2Model ----
(***************************************************************************)
(* Model of the filtering and curation pipeline of micoreca:               *)
(*   bin/filter_rsec.py, bin/filter_rsec_2.py  (Tool / ToolSet),           *)
(*   bin/extract_workflowhub.py                (Workflow / Workflows),     *)
(*   bin/bioconda_manager.py                   (BiocondaRecipe(s)),        *)
(*   bin/utils.py                              (has_keyword, format_regex).*)
(*                                                                         *)
(* Texts are sequences of ASCII codes, so that lower(), upper(), strip(),  *)
(* word boundaries and regex searches are computed as Python computes      *)
(* them.  The regular expressions of the model are the shapes found in a   *)
(* keywords.yml: a literal ("MAGS"), a literal followed by ".*"            *)
(* ("metage.*") and a malformed pattern (unbalanced parenthesis "MAG(").   *)
(***************************************************************************)
EXTENDS Integers, Sequences, FiniteSets, TLC

VARIABLES
    command,        \* which entry point runs (one script / sub-command per run)
    variant,        \* 1: filter_rsec.py, 2: filter_rsec_2.py
    pc,             \* position of the run
    keywords_yml,   \* the parsed YAML rule-set document
    rules,          \* module globals TARGET_*, STRICT_KEYWORDS, COMPILED_* once loaded
    items,          \* sub-folders of the root directory (their metadata files)
    tools,          \* ToolSet.tools: the Tool objects built so far
    runs,           \* number of run_checks calls on each Tool
    first_run,      \* keep / validation_data of each Tool after its first run_checks
    report_counts,  \* ToolSet.report_counts
    validated_metadata_list,
    failed_metadata_list,
    subfolders_to_delete,
    deleted,        \* folders removed by shutil.rmtree
    wf_objs,        \* the Workflow objects (a reference is an index of this sequence)
    workflows,      \* Workflows.workflows: references, in list order
    wf_status,      \* status table of the workflows, keyed by link
    wf_i,           \* workflows already visited by the loop of filter_workflows_by_tags
    to_keep_wf,     \* local list of filter_workflows_by_tags: references
    wf_calls,       \* per Workflow object: the test_* methods called on it, in order
    rc_objs,        \* the BiocondaRecipe objects
    recipes,        \* BiocondaRecipes.recipes: references, in insertion order of the dict
    rc_status,      \* status table of the recipes, keyed by package name
    rc_i,           \* recipes (meta.yaml paths) already visited by the loop of
                    \* filter_by_keywords (parse_all)
    filtered_recipes, \* local dict of filter_by_keywords: references
    rc_calls,       \* per BiocondaRecipe object: the test_* methods called on it
    keywords_file,  \* the rule-set file on disk: "missing", "unparseable" or "ok"
    status_file,    \* the status TSV given with --status
    meta_yamls,     \* recipes/*/meta.yaml of the Bioconda checkout, in glob order
    disk,           \* the output directory: which files exist, and their content
    first_disk,     \* the output directory as the first of two script runs left it
    rerun,          \* "no": one script run; "pending" / "second": the script is run twice
    retries,        \* get_request_json: the retries argument
    attempt,        \* get_request_json: the local counter of the while loop
    rq_outcomes,    \* get_request_json: what each requests.get / r.json() did, in order
    rq_slept,       \* get_request_json: number of time.sleep(delay) calls
    rq_result       \* get_request_json: "" while running, then how the call ended

vars == <<command, variant, pc, keywords_yml, rules, items, tools, runs, first_run,
          report_counts, validated_metadata_list, failed_metadata_list,
          subfolders_to_delete, deleted, wf_objs, workflows, wf_status, wf_i,
          to_keep_wf, wf_calls, rc_objs, recipes, rc_status, rc_i, filtered_recipes,
          rc_calls, keywords_file, status_file, meta_yamls, disk, first_disk, rerun,
          retries, attempt, rq_outcomes, rq_slept, rq_result>>

----------------------------------------------------------------------------
(* Bounds of the model *)

\* run_checks calls made on one Tool by the unit-level entry point
MaxRuns == 2
\* sub-folders in the root directory of a run_filtering batch
MaxFolders == 3
\* workflows in a filter_workflows_by_tags batch
MaxWorkflows == 2
\* recipes in a filter_by_keywords batch
MaxRecipes == 2
\* largest retries argument of get_request_json
MaxRetries == 3

----------------------------------------------------------------------------
(* Texts of the bounded inputs (ASCII codes) *)

t_Metagenomics == <<77, 101, 116, 97, 103, 101, 110, 111, 109, 105, 99, 115>>  \* "Metagenomics"
t_Genomics == <<71, 101, 110, 111, 109, 105, 99, 115>>  \* "Genomics"
t_Annotation == <<65, 110, 110, 111, 116, 97, 116, 105, 111, 110>>  \* "Annotation"
t_Alignment == <<65, 108, 105, 103, 110, 109, 101, 110, 116>>  \* "Alignment"
kw_MAGS == <<77, 65, 71, 83>>  \* "MAGS"
kw_metage == <<109, 101, 116, 97, 103, 101, 46, 42>>  \* "metage.*"
kw_comma == <<44>>  \* ","
kw_MAGparen == <<77, 65, 71, 40>>  \* "MAG("
ac_OTU == <<79, 84, 85>>  \* "OTU"
ac_MAG == <<77, 65, 71>>  \* "MAG"
d_the_MAG_assembly == <<116, 104, 101, 32, 77, 65, 71, 32, 97, 115, 115, 101, 109, 98, 108, 121>>  \* "the MAG assembly"
d_MAGNIFICENT == <<77, 65, 71, 78, 73, 70, 73, 67, 69, 78, 84>>  \* "MAGNIFICENT"
d_MAG_and_OTU == <<77, 65, 71, 32, 97, 110, 100, 32, 79, 84, 85>>  \* "MAG and OTU"
d_OTU_clustering == <<79, 84, 85, 32, 99, 108, 117, 115, 116, 101, 114, 105, 110, 103>>  \* "OTU clustering"
d_metagenomic_fast == <<102, 97, 115, 116, 32, 109, 101, 116, 97, 103, 101, 110, 111, 109, 105, 99, 44, 32, 116, 111, 111, 108>>  \* "fast metagenomic, tool"
d_read_mapper == <<114, 101, 97, 100, 32, 109, 97, 112, 112, 101, 114>>  \* "read mapper"
d_metagenomic_MAGS == <<109, 101, 116, 97, 103, 101, 110, 111, 109, 105, 99, 32, 77, 65, 71, 83>>  \* "metagenomic MAGS"
c_otu == <<111, 116, 117>>  \* "otu"
c_Metagenome == <<77, 101, 116, 97, 103, 101, 110, 111, 109, 101>>  \* "Metagenome"
c_qc == <<32, 113, 99, 32>>  \* " qc "
s_in == <<32, 105, 110, 32>>  \* " in "
s_tags == <<116, 97, 103, 115>>  \* "tags"
s_name == <<110, 97, 109, 101>>  \* "name"
s_description == <<100, 101, 115, 99, 114, 105, 112, 116, 105, 111, 110>>  \* "description"
s_edam == <<101, 100, 97, 109>>  \* "edam"
s_no_description ==
    <<78, 47, 65, 32, 45, 32, 78, 111, 32, 100, 101, 115, 99, 114, 105, 112, 116, 105, 111, 110, 32, 102, 111, 117, 110, 100, 32, 105, 110, 32, 97, 110, 121, 32, 112, 114, 105, 111, 114, 105, 116, 105, 122, 101, 100, 32, 102, 105, 108, 101, 46>>
s_manual == <<109, 97, 110, 117, 97, 108>>  \* "manual"
s_curation_date == <<50, 48, 50, 51, 45, 49, 50, 45, 49, 53>>  \* "2023-12-15"

----------------------------------------------------------------------------
(* Python str and re, on ASCII texts *)

Min(S) == CHOOSE x \in S : \A y \in S : x <= y

IsUpperChar(c) == c \in 65..90
IsLowerChar(c) == c \in 97..122
IsLetter(c) == IsUpperChar(c) \/ IsLowerChar(c)
\* \w of re (ASCII): letters, digits, underscore
IsWordChar(c) == IsLetter(c) \/ c \in 48..57 \/ c = 95
IsSpace(c) == c \in {32, 9, 10, 13}

\* str.lower(), of one character and of a text
lower_char(c) == IF IsUpperChar(c) THEN c + 32 ELSE c
lower(s) == [i \in 1..Len(s) |-> lower_char(s[i])]
\* str.upper()
upper(s) == [i \in 1..Len(s) |-> IF IsLowerChar(s[i]) THEN s[i] - 32 ELSE s[i]]

\* str.strip()
strip(s) ==
    LET keep == {i \in 1..Len(s) : ~IsSpace(s[i])}
    IN  IF keep = {} THEN <<>>
        ELSE SubSeq(s, Min(keep), CHOOSE j \in keep : \A k \in keep : k <= j)

\* str.split()[0]: the first whitespace-delimited token (s holds one)
first_token(s) ==
    LET b == Min({i \in 1..Len(s) : ~IsSpace(s[i])})
        stops == {j \in b..Len(s) : IsSpace(s[j])}
    IN  SubSeq(s, b, IF stops = {} THEN Len(s) ELSE Min(stops) - 1)

\* re.sub(r"[.,;()?!]+$", "", mot)
strip_trailing_punct(mot) ==
    LET solid == {i \in 1..Len(mot) : mot[i] \notin {46, 44, 59, 40, 41, 63, 33}}
    IN  IF solid = {} THEN <<>>
        ELSE SubSeq(mot, 1, CHOOSE j \in solid : \A k \in solid : k <= j)

\* any(c in kw for c in [".", "*", "+", "?"])
HasMeta(kw) == \E i \in 1..Len(kw) : kw[i] \in {46, 42, 43, 63}

\* re.compile(p) succeeds: no leading quantifier and balanced parentheses
Compiles(p) ==
    /\ Len(p) > 0 => p[1] \notin {42, 43, 63}
    /\ Cardinality({i \in 1..Len(p) : p[i] = 40}) = Cardinality({i \in 1..Len(p) : p[i] = 41})

\* a pattern "lit.*": the literal part and whether the greedy tail is there
HasTail(p) == Len(p) >= 2 /\ p[Len(p) - 1] = 46 /\ p[Len(p)] = 42
Literal(p) == IF HasTail(p) THEN SubSeq(p, 1, Len(p) - 2) ELSE p

\* the literal lit stands at position i of text (ic: re.IGNORECASE)
MatchAt(lit, text, i, ic) ==
    /\ i + Len(lit) - 1 <= Len(text)
    /\ \A j \in 1..Len(lit) :
          IF ic THEN lower_char(lit[j]) = lower_char(text[i + j - 1])
                ELSE lit[j] = text[i + j - 1]

Starts(lit, text, ic) == {i \in 1..(Len(text) + 1) : MatchAt(lit, text, i, ic)}

NoMatch == [found |-> FALSE, group |-> <<>>]

\* re.compile(p, re.IGNORECASE).search(text): leftmost match, group(0)
fragment_search(p, text) ==
    LET st == Starts(Literal(p), text, TRUE)
    IN  IF st = {} THEN NoMatch
        ELSE LET b == Min(st)
                 e == IF HasTail(p) THEN Len(text) ELSE b + Len(Literal(p)) - 1
             IN  [found |-> TRUE, group |-> SubSeq(text, b, e)]

\* \b at the gap before position i of text
WordBoundary(text, i) ==
    LET w(k) == k \in 1..Len(text) /\ IsWordChar(text[k])
    IN  w(i - 1) # w(i)

\* re.compile(r"\b" + re.escape(ref) + r"\b").search(text)   (case-sensitive)
strict_search(ref, text) ==
    \E i \in Starts(ref, text, FALSE) :
        WordBoundary(text, i) /\ WordBoundary(text, i + Len(ref))

\* utils.format_regex: (?<![A-Za-z])pattern(?![A-Za-z]), searched in text
format_regex_search(p, text, ic) ==
    \E i \in Starts(Literal(p), text, ic) :
        /\ ~(i - 1 \in 1..Len(text) /\ IsLetter(text[i - 1]))
        /\ \/ HasTail(p)    \* the greedy tail runs to the end of the text
           \/ LET e == i + Len(Literal(p))
              IN  ~(e \in 1..Len(text) /\ IsLetter(text[e]))

----------------------------------------------------------------------------
(* Small helpers on sequences and dictionaries *)

Range(s) == {s[i] : i \in 1..Len(s)}

\* the enumerations (without repetition) of a finite set
Orders(S) == {f \in [1..Cardinality(S) -> S] : \A i, j \in 1..Cardinality(S) : f[i] = f[j] => i = j}

\* d[k] = v on a Python dict
Put(d, k, v) == [x \in DOMAIN d \cup {k} |-> IF x = k THEN v ELSE d[x]]

----------------------------------------------------------------------------
(* filter_rsec.py / filter_rsec_2.py: the rule set *)

CRITERIA_KEYS ==
    <<"EDAM_topics", "EDAM_operation", "biocontainers_keywords",
      "biotools_description", "biocontainers_description", "galaxy_description">>

\* isinstance(x, str) and x.strip()
NonBlank(x) == strip(x) # <<>>

\* the strict terms if the loop over the keywords entries were missing: acronyms only
StrictSet_acronyms_only(data) ==
    {upper(strip(data.acronyms[i])) : i \in {j \in 1..Len(data.acronyms) : NonBlank(data.acronyms[j])}}

\* the strict terms, as a set: set([k.strip().upper() for k in strict_keywords_list if k.strip()])
StrictSet(data) ==
    LET acr == {data.acronyms[i] : i \in {j \in 1..Len(data.acronyms) : NonBlank(data.acronyms[j])}}
        dual == {data.keywords[i] : i \in {j \in 1..Len(data.keywords) :
                    /\ NonBlank(data.keywords[j])
                    /\ ~HasMeta(data.keywords[j])
                    /\ upper(data.keywords[j]) = data.keywords[j]}}
    IN  {upper(strip(k)) : k \in acr \cup dual}

\* a keywords entry that lands in compiled_fragments
CompiledFragment(p) == NonBlank(p) /\ Compiles(p)

\* a keywords entry whose re.compile raises re.error: the [WARNING] line is printed
SkippedFragment(p) == NonBlank(p) /\ ~Compiles(p)

\* A parsed document is a mapping with up to three sections.  `missing` names the
\* sections that are no key of the mapping (their field then holds the default that
\* data.get(k, []) / data.get("edam", {}) hands back), `null` the sections that are a key
\* without a value (YAML `keywords:`), which yaml.safe_load gives as None.
IsNone(data, k) == k \in data.null
Lacks(data, k) == k \in data.missing

\* a load that lets the re.error of a malformed pattern through
load_raises_on_bad_pattern(data) ==
    \/ \E k \in {"edam", "keywords", "acronyms"} : IsNone(data, k)
    \/ \E i \in 1..Len(data.keywords) : SkippedFragment(data.keywords[i])

\* load_keywords_from_yaml raises: None.get(...) (AttributeError) for edam, iterating
\* None (TypeError) for keywords and acronyms
load_raises(data) == \E k \in {"edam", "keywords", "acronyms"} : IsNone(data, k)

\* load_keywords_from_yaml; order is the iteration order list(set(...)) happens to give,
\* warnings the patterns named in the [WARNING] lines it prints
load_keywords_from_yaml(data, order) ==
    [operations |-> data.edam.operations,
     topics |-> data.edam.topics,
     compiled_fragments |-> SelectSeq(data.keywords, CompiledFragment),
     stricts |-> order,
     warnings |-> SelectSeq(data.keywords, SkippedFragment)]

NotLoaded == [operations |-> <<>>, topics |-> <<>>, compiled_fragments |-> <<>>,
              stricts |-> <<>>, warnings |-> <<>>]

----------------------------------------------------------------------------
(* filter_rsec.py / filter_rsec_2.py: class Tool *)

\* a metadata file of a tool folder: not there, there but not parseable, or parsed
Absent == [present |-> FALSE, malformed |-> FALSE, topic |-> <<>>, function |-> <<>>,
           keywords |-> <<>>, description |-> <<>>]
Malformed == [Absent EXCEPT !.present = TRUE, !.malformed = TRUE]

\* Tool._safe_load with the `if data and isinstance(data, dict)` of its caller: what is
\* stored in self.metadata, nothing when the file is missing or does not parse
safe_load(file) == IF file.present /\ ~file.malformed THEN file ELSE Absent

\* Tool.__init__: keep False, validation_data without any criteria key; self.item is the
\* loaded metadata; of the keys that only feed the TSV report the *_description_full keys
\* are kept (has_*_infos, EDAM_*_full and biotools_id are no match keys and are left out)
Tool(item) ==
    LET metadata == [tool_id |-> item.tool_id,
                     biotools |-> safe_load(item.biotools),
                     biocontainers |-> safe_load(item.biocontainers),
                     galaxy |-> safe_load(item.galaxy)]
    IN  [item |-> metadata,
         keep |-> FALSE,
         validation_data |->
            [k \in {"tool_id", "biotools_description_full",
                     "biocontainers_description_full", "galaxy_description_full"} |->
                CASE k = "tool_id" -> item.tool_id
                  [] k = "biotools_description_full" -> metadata.biotools.description
                  [] k = "biocontainers_description_full" -> metadata.biocontainers.description
                  [] k = "galaxy_description_full" -> metadata.galaxy.description]]

\* self.descriptions.get(src, "")
description_of(self, src) ==
    IF self.item[src].present THEN self.item[src].description ELSE <<>>

Fail(self) == [ok |-> FALSE, validation_data |-> self.validation_data]
\* a check that adds to the value already recorded under the key instead of replacing it
Hit_accumulating(self, key, value) ==
    [ok |-> TRUE,
     validation_data |->
        Put(self.validation_data, key,
            IF key \in DOMAIN self.validation_data
            THEN self.validation_data[key] \o value ELSE value)]
Hit(self, key, value) == [ok |-> TRUE, validation_data |-> Put(self.validation_data, key, value)]

\* filter_rsec.py check_criteria_1: topics first, then operations
check_criteria_1(self, R) ==
    LET data == self.item.biotools
        th == {i \in 1..Len(data.topic) : data.topic[i] \in Range(R.topics)}
        oh == {i \in 1..Len(data.function) : data.function[i] \in Range(R.operations)}
    IN  IF ~data.present THEN Fail(self)
        ELSE IF th # {} THEN Hit(self, "EDAM_topics", data.topic[Min(th)])
        ELSE IF oh # {} THEN Hit(self, "EDAM_operation", data.function[Min(oh)])
        ELSE Fail(self)

\* filter_rsec_2.py check_criteria_1: operations first, then topics
check_criteria_1_v2(self, R) ==
    LET data == self.item.biotools
        th == {i \in 1..Len(data.topic) : data.topic[i] \in Range(R.topics)}
        oh == {i \in 1..Len(data.function) : data.function[i] \in Range(R.operations)}
    IN  IF ~data.present THEN Fail(self)
        ELSE IF oh # {} THEN Hit(self, "EDAM_operation", data.function[Min(oh)])
        ELSE IF th # {} THEN Hit(self, "EDAM_topics", data.topic[Min(th)])
        ELSE Fail(self)

\* first (candidate, pattern) pair, candidates outermost, whose search succeeds
first_fragment_hit(cands, pats) ==
    LET hits == {<<i, j>> \in (1..Len(cands)) \X (1..Len(pats)) :
                    fragment_search(pats[j], lower(cands[i])).found}
    IN  IF hits = {} THEN NoMatch
        ELSE LET i == Min({h[1] : h \in hits})
                 j == Min({h[2] : h \in {g \in hits : g[1] = i}})
             IN  fragment_search(pats[j], lower(cands[i]))

\* a single loop over the candidates that tries both rules on each of them
check_criteria_2_per_candidate(self, R) ==
    LET data == self.item.biocontainers
        cands == [i \in 1..Len(data.keywords) |-> strip(data.keywords[i])]
        hits == {i \in 1..Len(cands) :
                    \/ upper(cands[i]) \in Range(R.stricts)
                    \/ \E j \in 1..Len(R.compiled_fragments) :
                          fragment_search(R.compiled_fragments[j], lower(cands[i])).found}
        first == cands[Min(hits)]
    IN  IF ~data.present \/ data.keywords = <<>> \/ hits = {} THEN Fail(self)
        ELSE IF upper(first) \in Range(R.stricts)
             THEN Hit(self, "biocontainers_keywords", first)
        ELSE Hit(self, "biocontainers_keywords",
                 first_fragment_hit(<<first>>, R.compiled_fragments).group)

\* check_criteria_2 (the same in both scripts), keywords given as a list: a loop over the
\* candidates for the strict terms, then a second loop for the fragment patterns
check_criteria_2(self, R) ==
    LET data == self.item.biocontainers
        cands == [i \in 1..Len(data.keywords) |-> strip(data.keywords[i])]
        sh == {i \in 1..Len(cands) : upper(cands[i]) \in Range(R.stricts)}
        fh == first_fragment_hit(cands, R.compiled_fragments)
    IN  IF ~data.present \/ data.keywords = <<>> THEN Fail(self)
        ELSE IF sh # {} THEN Hit(self, "biocontainers_keywords", cands[Min(sh)])
        ELSE IF fh.found THEN Hit(self, "biocontainers_keywords", fh.group)
        ELSE Fail(self)

\* first pattern of pats, in order, found in text
first_pattern_hit(pats, text) ==
    LET hits == {j \in 1..Len(pats) : fragment_search(pats[j], text).found}
    IN  IF hits = {} THEN NoMatch ELSE fragment_search(pats[Min(hits)], text)

\* filter_rsec.py check_criteria_3, body of the loop for one description
search_description(content, R) ==
    LET content_lower == lower(content)
        sh == {j \in 1..Len(R.stricts) : strict_search(R.stricts[j], content_lower)}
        fh == first_pattern_hit(R.compiled_fragments, content_lower)
    IN  IF content_lower = <<>> THEN NoMatch
        ELSE IF sh # {} THEN [found |-> TRUE, group |-> R.stricts[Min(sh)]]
        ELSE IF fh.found
             THEN [found |-> TRUE, group |-> strip_trailing_punct(first_token(fh.group))]
        ELSE NoMatch

\* filter_rsec_2.py Tool._search_keywords_in_content
search_keywords_in_content(content, R) ==
    LET sh == {j \in 1..Len(R.stricts) : strict_search(R.stricts[j], content)}
        fh == first_pattern_hit(R.compiled_fragments, lower(content))
    IN  IF content = <<>> THEN NoMatch
        ELSE IF sh # {} THEN [found |-> TRUE, group |-> R.stricts[Min(sh)]]
        ELSE fh

\* filter_rsec.py check_criteria_3: bio.tools > BioContainers > Galaxy
check_criteria_3(self, R) ==
    LET bt == search_description(description_of(self, "biotools"), R)
        bc == search_description(description_of(self, "biocontainers"), R)
        gx == search_description(description_of(self, "galaxy"), R)
    IN  IF bt.found THEN Hit(self, "biotools_description", bt.group)
        ELSE IF bc.found THEN Hit(self, "biocontainers_description", bc.group)
        ELSE IF gx.found THEN Hit(self, "galaxy_description", gx.group)
        ELSE Fail(self)

\* filter_rsec_2.py check_criteria_3: BioContainers > bio.tools > Galaxy;
\* `if match:` is false for an empty matched string
check_criteria_3_v2(self, R) ==
    LET bc == search_keywords_in_content(description_of(self, "biocontainers"), R)
        bt == search_keywords_in_content(description_of(self, "biotools"), R)
        gx == search_keywords_in_content(description_of(self, "galaxy"), R)
    IN  IF bc.found /\ bc.group # <<>> THEN Hit(self, "biocontainers_description", bc.group)
        ELSE IF bt.found /\ bt.group # <<>> THEN Hit(self, "biotools_description", bt.group)
        ELSE IF gx.found /\ gx.group # <<>> THEN Hit(self, "galaxy_description", gx.group)
        ELSE Fail(self)

\* run_checks without the early returns: every check runs and leaves its key
Cascade_no_return(self, c1, c2, c3) ==
    LET succ == {c \in {c1, c2, c3} : c.ok}
        keys == DOMAIN self.validation_data \cup UNION {DOMAIN c.validation_data : c \in succ}
        merged == [k \in keys |->
                     IF c1.ok /\ k \in DOMAIN c1.validation_data THEN c1.validation_data[k]
                     ELSE IF c2.ok /\ k \in DOMAIN c2.validation_data THEN c2.validation_data[k]
                     ELSE IF c3.ok /\ k \in DOMAIN c3.validation_data THEN c3.validation_data[k]
                     ELSE self.validation_data[k]]
    IN  [self EXCEPT !.keep = (succ # {}), !.validation_data = merged]

\* the three checks in order on the same object: each sees what the one before wrote
Cascade(self, c1, c2, c3) ==
    IF c1.ok THEN [self EXCEPT !.keep = TRUE, !.validation_data = c1.validation_data]
    ELSE IF c2.ok THEN [self EXCEPT !.keep = TRUE, !.validation_data = c2.validation_data]
    ELSE IF c3.ok THEN [self EXCEPT !.keep = TRUE, !.validation_data = c3.validation_data]
    ELSE [self EXCEPT !.keep = FALSE]

\* filter_rsec.py Tool.run_checks
run_checks(self, R) ==
    Cascade(self, check_criteria_1(self, R), check_criteria_2(self, R), check_criteria_3(self, R))

\* filter_rsec_2.py Tool.run_checks
run_checks_v2(self, R) ==
    Cascade(self, check_criteria_1_v2(self, R), check_criteria_2(self, R), check_criteria_3_v2(self, R))

----------------------------------------------------------------------------
(* filter_rsec.py / filter_rsec_2.py: class ToolSet *)

ZeroCounts ==
    [total_folders |-> 0, validated_filter_1 |-> 0, validated_filter_2 |-> 0,
     validated_filter_3 |-> 0, did_not_pass_any |-> 0]

\* the branch on tool.keep with "biotools_description" missing from the keys of level 3
tally_two_description_keys(counts, tool) ==
    LET vd == DOMAIN tool.validation_data
    IN  IF tool.keep
        THEN IF "EDAM_operation" \in vd \/ "EDAM_topics" \in vd
                 THEN [counts EXCEPT !.validated_filter_1 = @ + 1]
             ELSE IF "biocontainers_keywords" \in vd
                 THEN [counts EXCEPT !.validated_filter_2 = @ + 1]
             ELSE IF \E k \in {"biocontainers_description", "galaxy_description"} : k \in vd
                 THEN [counts EXCEPT !.validated_filter_3 = @ + 1]
             ELSE counts
        ELSE [counts EXCEPT !.did_not_pass_any = @ + 1]

\* run_filtering, the branch on tool.keep that updates report_counts
tally(counts, tool) ==
    LET vd == DOMAIN tool.validation_data
    IN  IF tool.keep
        THEN IF "EDAM_operation" \in vd \/ "EDAM_topics" \in vd
                 THEN [counts EXCEPT !.validated_filter_1 = @ + 1]
             ELSE IF "biocontainers_keywords" \in vd
                 THEN [counts EXCEPT !.validated_filter_2 = @ + 1]
             ELSE IF \E k \in {"biotools_description", "biocontainers_description",
                               "galaxy_description"} : k \in vd
                 THEN [counts EXCEPT !.validated_filter_3 = @ + 1]
             ELSE counts
        ELSE [counts EXCEPT !.did_not_pass_any = @ + 1]

----------------------------------------------------------------------------
(* filter_rsec.py / filter_rsec_2.py: the files of the output directory *)

\* VALIDATED_METADATA_FILE, FAILED_METADATA_FILE, REPORTING_FILE, TSV_OUTPUT_FILE
OutputFiles == {"validated", "failed", "report", "tsv"}

\* filter_rsec_2.py ToolSet._store_tool_metadata: the list in the file, plus tool_data
store_tool_metadata(d, file, tool_data) ==
    [d EXCEPT !.files = @ \cup {file}, ![file] = Append(@, tool_data)]

\* filter_rsec.py ToolSet._write_metadata_once: the whole list, [] when it is empty
write_metadata_once(d, file, data) ==
    [d EXCEPT !.files = @ \cup {file}, ![file] = data]

\* a report that takes every analysed folder for a kept one
write_report_all_kept(d, counts, total_deleted, total_kept) ==
    [d EXCEPT !.files = @ \cup {"report"},
              !.report = [counts |-> counts, total_deleted |-> total_deleted,
                          total_kept |-> counts.total_folders]]

\* ToolSet._write_report
write_report(d, counts, total_deleted, total_kept) ==
    [d EXCEPT !.files = @ \cup {"report"},
              !.report = [counts |-> counts, total_deleted |-> total_deleted,
                          total_kept |-> total_kept]]

\* REASON_MAPPING: what follows "{value}" in the template of each key
REASON_MAPPING ==
    [EDAM_topics |->                \* " in EDAM Topics"
        <<32, 105, 110, 32, 69, 68, 65, 77, 32, 84, 111, 112, 105, 99, 115>>,
     EDAM_operation |->             \* " in EDAM Operations"
        <<32, 105, 110, 32, 69, 68, 65, 77, 32, 79, 112, 101, 114, 97, 116, 105, 111, 110, 115>>,
     biocontainers_keywords |->     \* " in BioContainers keywords"
        <<32, 105, 110, 32, 66, 105, 111, 67, 111, 110, 116, 97, 105, 110, 101, 114, 115, 32, 107, 101, 121, 119, 111, 114, 100, 115>>,
     biotools_description |->       \* " in bio.tools description"
        <<32, 105, 110, 32, 98, 105, 111, 46, 116, 111, 111, 108, 115, 32, 100, 101, 115, 99, 114, 105, 112, 116, 105, 111, 110>>,
     biocontainers_description |->  \* " in BioContainers description"
        <<32, 105, 110, 32, 66, 105, 111, 67, 111, 110, 116, 97, 105, 110, 101, 114, 115, 32, 100, 101, 115, 99, 114, 105, 112, 116, 105, 111, 110>>,
     galaxy_description |->         \* " in Galaxy description"
        <<32, 105, 110, 32, 71, 97, 108, 97, 120, 121, 32, 100, 101, 115, 99, 114, 105, 112, 116, 105, 111, 110>>]

\* "N/A - Not Matched"
s_not_matched == <<78, 47, 65, 32, 45, 32, 78, 111, 116, 32, 77, 97, 116, 99, 104, 101, 100>>

\* generate_tsv_summary, the filtered_on and reason columns of one entry: the first key
\* of CRITERIA_KEYS with a non-empty value, formatted with its template
tsv_reason(item) ==
    LET hit == {k \in 1..Len(CRITERIA_KEYS) :
                    CRITERIA_KEYS[k] \in DOMAIN item /\ item[CRITERIA_KEYS[k]] # <<>>}
    IN  IF hit = {} THEN [filtered_on |-> "UNKNOWN_REASON", reason |-> s_not_matched]
        ELSE [filtered_on |-> CRITERIA_KEYS[Min(hit)],
              reason |-> item[CRITERIA_KEYS[Min(hit)]] \o REASON_MAPPING[CRITERIA_KEYS[Min(hit)]]]

\* generate_tsv_summary, the description column of one entry: the first non-empty of the
\* bio.tools, BioContainers and Galaxy descriptions
tsv_description(item) ==
    IF item["biotools_description_full"] # <<>> THEN item["biotools_description_full"]
    ELSE IF item["biocontainers_description_full"] # <<>>
         THEN item["biocontainers_description_full"]
    ELSE IF item["galaxy_description_full"] # <<>> THEN item["galaxy_description_full"]
    ELSE s_no_description

\* generate_tsv_summary: nothing is written when the JSON is missing or an empty list
generate_tsv_summary(d) ==
    IF "validated" \notin d.files \/ d.validated = <<>> THEN d
    ELSE [d EXCEPT !.files = @ \cup {"tsv"},
                   !.tsv = [i \in 1..Len(d.validated) |->
                               [tool_id |-> d.validated[i]["tool_id"],
                                filtered_on |-> tsv_reason(d.validated[i]).filtered_on,
                                reason |-> tsv_reason(d.validated[i]).reason,
                                description |-> tsv_description(d.validated[i])]]]

----------------------------------------------------------------------------
(* utils.py *)

\* the value a raising call hands back: the exception propagates to the caller
Raised == [raised |-> TRUE, ok |-> FALSE, filtered_on |-> <<>>]
Found(reason) == [raised |-> FALSE, ok |-> TRUE, filtered_on |-> reason]
NotFound == [raised |-> FALSE, ok |-> FALSE, filtered_on |-> <<>>]

\* f"{tag} in {target_name}"
reason_of(tag, target_name) == tag \o s_in \o target_name

\* a loop `for tag in tags: regex = re.compile(format_regex(tag), flags); if <hit>: return`,
\* hits being the indices of the tags whose regex hits: the index of the first tag that
\* either fails to compile or hits, 0 if none
first_decisive(tags, hits) ==
    LET dec == {i \in 1..Len(tags) : ~Compiles(tags[i]) \/ i \in hits}
    IN  IF dec = {} THEN 0 ELSE Min(dec)

\* data[k] raises KeyError when k is no key of the mapping, and what is done with the
\* value raises TypeError when it is None
Unusable(data, k) == Lacks(data, k) \/ IsNone(data, k)

\* utils.has_keyword: keywords with IGNORECASE first, then acronyms case-sensitively
has_keyword(tags, target, target_name) ==
    LET k == first_decisive(tags.keywords,
                {i \in 1..Len(tags.keywords) : format_regex_search(tags.keywords[i], target, TRUE)})
        a == first_decisive(tags.acronyms,
                {i \in 1..Len(tags.acronyms) : format_regex_search(tags.acronyms[i], target, FALSE)})
    IN  IF Unusable(tags, "keywords") THEN Raised
        ELSE IF k # 0
        THEN IF Compiles(tags.keywords[k])
             THEN Found(reason_of(tags.keywords[k], target_name)) ELSE Raised
        ELSE IF Unusable(tags, "acronyms") THEN Raised
        ELSE IF a # 0
        THEN IF Compiles(tags.acronyms[a])
             THEN Found(reason_of(tags.acronyms[a], target_name)) ELSE Raised
        ELSE NotFound

----------------------------------------------------------------------------
(* extract_workflowhub.py: class Workflow *)

\* Workflow.__init__, with the fields the filter reads set by init_by_importing
Workflow(link, name, tags, edam_topic, edam_operation, description, keep) ==
    [link |-> link, name |-> name, tags |-> tags, edam_topic |-> edam_topic,
     edam_operation |-> edam_operation, description |-> description,
     keep |-> keep, filtered_on |-> <<>>]

\* Workflow.test_tags: keywords + acronyms, all with IGNORECASE
test_tags(self, keywords_to_search) ==
    LET keywords_list == keywords_to_search.keywords \o keywords_to_search.acronyms
        i == first_decisive(keywords_list,
                {j \in 1..Len(keywords_list) :
                    \E w \in 1..Len(self.tags) :
                        format_regex_search(keywords_list[j], self.tags[w], TRUE)})
    IN  IF Unusable(keywords_to_search, "keywords") \/ Unusable(keywords_to_search, "acronyms")
        THEN Raised
        ELSE IF i = 0 THEN NotFound
        ELSE IF Compiles(keywords_list[i]) THEN Found(reason_of(keywords_list[i], s_tags))
        ELSE Raised

\* test_edam_terms returning True without writing self.filtered_on
test_edam_terms_no_reason(self, edam_keywords) ==
    IF \/ Range(self.edam_topic) \cap Range(edam_keywords.topics) # {}
       \/ Range(self.edam_operation) \cap Range(edam_keywords.operations) # {}
    THEN Found(<<>>) ELSE NotFound

\* Workflow.test_edam_terms
test_edam_terms(self, edam_keywords) ==
    IF \/ Range(self.edam_topic) \cap Range(edam_keywords.topics) # {}
       \/ Range(self.edam_operation) \cap Range(edam_keywords.operations) # {}
    THEN Found(s_edam) ELSE NotFound

\* Workflow.test_name
test_name(self, keywords_to_search) == has_keyword(keywords_to_search, self.name, s_name)

\* Workflow.test_description
test_description(self, keywords_to_search) ==
    has_keyword(keywords_to_search, self.description, s_description)

\* Workflow.update_status
update_status(self, wf_st) == [self EXCEPT !.keep = wf_st["To keep"]]

\* a chain of plain `if`s: every test is called and the last success writes filtered_on
test_chain_last_match(self, keywords) ==
    LET tests == <<IF Unusable(keywords, "edam") THEN Raised
                   ELSE test_edam_terms(self, keywords.edam),
                   test_tags(self, keywords),
                   test_name(self, keywords), test_description(self, keywords)>>
        names == <<"test_edam_terms", "test_tags", "test_name", "test_description">>
        ok == {i \in 1..4 : tests[i].ok}
        last == CHOOSE i \in ok : \A j \in ok : j <= i
    IN  [raised |-> \E i \in 1..4 : tests[i].raised,
         kept |-> ok # {},
         self |-> IF ok # {} THEN [self EXCEPT !.filtered_on = tests[last].filtered_on]
                  ELSE self,
         calls |-> names]

\* the elif chain of filter_workflows_by_tags: the tests are called in order until one
\* succeeds or raises; a successful test has written self.filtered_on; keywords["edam"]
\* is evaluated by the chain itself
test_chain(self, keywords) ==
    LET tests == <<IF Unusable(keywords, "edam") THEN Raised
                   ELSE test_edam_terms(self, keywords.edam),
                   test_tags(self, keywords),
                   test_name(self, keywords), test_description(self, keywords)>>
        names == <<"test_edam_terms", "test_tags", "test_name", "test_description">>
        stop == {i \in 1..4 : tests[i].ok \/ tests[i].raised}
        last == IF stop = {} THEN 4 ELSE Min(stop)
    IN  [raised |-> tests[last].raised,
         kept |-> tests[last].ok,
         self |-> IF tests[last].ok THEN [self EXCEPT !.filtered_on = tests[last].filtered_on]
                  ELSE self,
         calls |-> SubSeq(names, 1, last)]

\* the body of the loop without the `if w.keep` branch: the tests run on every workflow
filter_workflow_no_skip(w, keywords, status) ==
    LET w1 == IF w.link \in DOMAIN status THEN update_status(w, status[w.link]) ELSE w
        t == test_chain(w1, keywords)
    IN  [raised |-> t.raised, kept |-> w1.keep \/ t.kept, self |-> t.self, calls |-> t.calls]

\* Workflows.filter_workflows_by_tags, the body of the loop for one workflow
filter_workflow(w, keywords, status) ==
    LET w1 == IF w.link \in DOMAIN status THEN update_status(w, status[w.link]) ELSE w
    IN  IF w1.keep
        THEN IF w1.link \in DOMAIN status /\ "Filtered on" \in DOMAIN status[w1.link]
             THEN [raised |-> FALSE, kept |-> TRUE,
                   self |-> [w1 EXCEPT !.filtered_on = status[w1.link]["Filtered on"]],
                   calls |-> <<>>]
             \* KeyError, after to_keep_wf.append(w)
             ELSE [raised |-> TRUE, kept |-> TRUE, self |-> w1, calls |-> <<>>]
        ELSE test_chain(w1, keywords)

----------------------------------------------------------------------------
(* bioconda_manager.py: class BiocondaRecipe *)

BiocondaRecipe(name, description, summary, keep) ==
    [name |-> name, description |-> description, summary |-> summary, keep |-> keep]

\* BiocondaRecipe.parse of one meta.yaml: a Jinja2 or YAML error is logged and raised
\* again, an empty document makes update_status(False) raise (metadata is None), a
\* document without package.name gives False
parse(file) ==
    IF file.kind \in {"render_error", "yaml_error", "empty"}
    THEN [raised |-> TRUE, status |-> FALSE, recipe |-> BiocondaRecipe(<<>>, <<>>, <<>>, FALSE)]
    ELSE IF file.kind = "no_name"
    THEN [raised |-> FALSE, status |-> FALSE,
          recipe |-> BiocondaRecipe(<<>>, file.description, file.summary, FALSE)]
    ELSE [raised |-> FALSE, status |-> TRUE,
          recipe |-> BiocondaRecipe(file.name, file.description, file.summary, FALSE)]

\* BiocondaRecipe.test_about
test_about(self, keywords) ==
    LET text == lower(self.description \o <<32>> \o self.summary)
        r == has_keyword(keywords, text, s_description)
    IN  [raised |-> r.raised, ok |-> ~r.raised /\ r.filtered_on # <<>>]

\* BiocondaRecipes.filter_by_keywords, the body of the loop for one recipe
filter_recipe(recipe, keywords, status) ==
    LET r1 == IF recipe.name \in DOMAIN status
              THEN [recipe EXCEPT !.keep = status[recipe.name]["keep"]] ELSE recipe
        t == test_about(r1, keywords)
    IN  IF r1.keep
        THEN [raised |-> FALSE, kept |-> TRUE, self |-> r1, calls |-> <<>>]
        ELSE [raised |-> t.raised, kept |-> t.ok, self |-> r1, calls |-> <<"test_about">>]

\* BiocondaRecipe.get_status: bool(self.metadata.get("keep", False)); a row of the status
\* table stored under "keep" is a dict, true unless it has no column
get_status(keep_is_row, keep) == IF keep_is_row THEN DOMAIN keep # {} ELSE keep

\* BiocondaRecipes.curate, the body of the loop for one recipe: update_status is handed
\* the whole row status[name]; the model keeps the truth value get_status reads from it
curate_recipe(recipe, status) ==
    LET r1 == IF recipe.name \in DOMAIN status
              THEN [recipe EXCEPT !.keep = get_status(TRUE, status[recipe.name])]
              ELSE recipe
    IN  [kept |-> get_status(FALSE, r1.keep), self |-> r1]

\* Workflows.curate_workflows, the body of the loop for one workflow
curate_workflow(w, wf_st) ==
    LET w1 == IF w.link \in DOMAIN wf_st THEN update_status(w, wf_st[w.link]) ELSE w
    IN  [kept |-> w1.keep, self |-> w1]

----------------------------------------------------------------------------
(* Loading the status table: pd.read_csv(args.status, sep="\t", index_col=...) *)

\* pandas.read_csv(...).to_dict("index"): FileNotFoundError without the file, ValueError
\* when the index column is not in the header
read_csv(file) ==
    IF ~file.exists THEN [raised |-> "FileNotFoundError", table |-> <<>>]
    ELSE IF ~file.index_col THEN [raised |-> "ValueError", table |-> <<>>]
    ELSE [raised |-> "", table |-> file.rows]

\* the exceptions of read_csv each sub-command catches (`except Exception` catches both)
filter_workflows_except == {"FileNotFoundError"}
curate_workflows_except == {"ValueError"}
filter_recipes_except == {"FileNotFoundError", "ValueError"}
curate_recipes_except == {"FileNotFoundError", "ValueError"}

StatusExcept(cmd) ==
    CASE cmd = "filter_workflows" -> filter_workflows_except
      [] cmd = "curate_workflows" -> curate_workflows_except
      [] cmd = "filter_recipes" -> filter_recipes_except
      [] cmd = "curate_recipes" -> curate_recipes_except

\* the try / except around read_csv: the status mapping, or the exception left uncaught
load_status(cmd, file) ==
    LET r == read_csv(file)
    IN  IF r.raised = "" THEN [raised |-> FALSE, status |-> r.table]
        ELSE IF r.raised \in StatusExcept(cmd) THEN [raised |-> FALSE, status |-> <<>>]
        ELSE [raised |-> TRUE, status |-> <<>>]

----------------------------------------------------------------------------
(* Bounded inputs *)

Biotools(t, f, d) == [Absent EXCEPT !.present = TRUE, !.topic = t, !.function = f, !.description = d]
Biocontainers(k, d) == [Absent EXCEPT !.present = TRUE, !.keywords = k, !.description = d]
Galaxy(d) == [Absent EXCEPT !.present = TRUE, !.description = d]

\* the rule-set documents: an upper-case keyword beside a pattern, two acronyms, and a
\* keyword that does not compile
Doc(keywords, acronyms) ==
    [edam |-> [operations |-> <<t_Annotation>>, topics |-> <<t_Metagenomics>>],
     keywords |-> keywords, acronyms |-> acronyms, missing |-> {}, null |-> {}]

\* the document without section k, and with section k left without a value
NoEdam == [operations |-> <<>>, topics |-> <<>>]
Without(doc, k) ==
    [doc EXCEPT ![k] = IF k = "edam" THEN NoEdam ELSE <<>>, !.missing = @ \cup {k}]
WithNull(doc, k) ==
    [doc EXCEPT ![k] = IF k = "edam" THEN NoEdam ELSE <<>>, !.null = @ \cup {k}]

KeywordsDocs ==
    {Doc(d[1], d[2]) :
        d \in {<<<<kw_MAGS, kw_metage>>, <<>>>>,
                <<<<kw_metage>>, <<ac_OTU, ac_MAG>>>>,
                <<<<kw_MAGparen>>, <<>>>>}}

\* documents with a section missing or left without a value, and no document at all
PartialDocs ==
    {Without(Doc(<<kw_metage>>, <<ac_OTU>>), k) : k \in {"edam", "keywords", "acronyms"}} \cup
    {WithNull(Doc(<<kw_metage>>, <<ac_OTU>>), k) : k \in {"edam", "keywords", "acronyms"}}
NoDoc == [edam |-> NoEdam, keywords |-> <<>>, acronyms |-> <<>>,
          missing |-> {"edam", "keywords", "acronyms"}, null |-> {}]

\* metadata of one tool folder, for the unit-level runs of run_checks
BiotoolsFiles ==
    {Absent,
     Biotools(<<t_Genomics, t_Metagenomics>>, <<t_Alignment, t_Annotation>>, d_the_MAG_assembly),
     Biotools(<<t_Genomics>>, <<t_Alignment, t_Annotation>>, <<>>)} \cup
    {Biotools(<<t_Genomics>>, <<>>, d) :
        d \in {<<>>, d_the_MAG_assembly, d_MAGNIFICENT, d_MAG_and_OTU}}
BiocontainersFiles ==
    {Absent,
     Biocontainers(<<>>, d_metagenomic_fast),
     Biocontainers(<<c_qc, c_otu>>, d_OTU_clustering),
     Biocontainers(<<c_Metagenome>>, <<>>),
     Biocontainers(<<c_Metagenome, c_otu>>, <<>>),
     Biocontainers(<<c_qc>>, d_OTU_clustering)}
GalaxyFiles == {Absent, Galaxy(d_read_mapper), Galaxy(d_the_MAG_assembly)}

Folder(id, bt, bc, gx) == [tool_id |-> id, biotools |-> bt, biocontainers |-> bc, galaxy |-> gx]

\* folder names, in directory order
FolderNames == <<"t1", "t2", "t3", "t4", "t5">>

\* the folders a run_filtering batch is drawn from
BatchShapes ==
    {<<Biotools(<<t_Metagenomics>>, <<>>, d_the_MAG_assembly), Absent, Absent>>,
     <<Absent, Biocontainers(<<>>, d_OTU_clustering), Absent>>,
     <<Absent, Absent, Galaxy(d_read_mapper)>>,
     <<Biotools(<<t_Genomics>>, <<>>, d_metagenomic_fast),
       Biocontainers(<<c_qc, c_otu>>, <<>>), Galaxy(d_the_MAG_assembly)>>}

Batches ==
    UNION {{[i \in 1..n |-> Folder(FolderNames[i], b[i][1], b[i][2], b[i][3])] :
                b \in [1..n -> BatchShapes]} : n \in 1..MaxFolders}

\* the folders of a root directory the script is run on twice, or with a broken rule
\* set: kept through its topic, discarded, and one whose bio.tools file does not parse
RerunShapes ==
    {<<Biotools(<<t_Metagenomics>>, <<>>, d_the_MAG_assembly), Absent, Absent>>,
     <<Absent, Absent, Galaxy(d_read_mapper)>>,
     <<Malformed, Biocontainers(<<>>, d_MAG_and_OTU), Absent>>}

RerunBatches ==
    UNION {{[i \in 1..n |-> Folder(FolderNames[i], b[i][1], b[i][2], b[i][3])] :
                b \in [1..n -> RerunShapes]} : n \in 1..MaxFolders}

\* workflow and recipe identities, in list order
Links == <<"wf1", "wf2", "wf3">>
PackageNames == <<"pkg1", "pkg2", "pkg3">>

\* the workflows a batch is drawn from: link-less shapes <<name, tags, topics, description, keep>>
WorkflowShapes ==
    {<<<<>>, <<>>, <<t_Metagenomics>>, <<>>, FALSE>>,
     <<d_OTU_clustering, <<c_qc, c_otu>>, <<>>, d_MAG_and_OTU, FALSE>>,
     <<d_the_MAG_assembly, <<>>, <<t_Genomics>>, d_MAGNIFICENT, FALSE>>,
     <<d_metagenomic_MAGS, <<>>, <<>>, <<>>, FALSE>>,
     <<d_MAGNIFICENT, <<>>, <<>>, d_MAG_and_OTU, FALSE>>,
     <<d_read_mapper, <<>>, <<>>, <<>>, FALSE>>,
     <<d_read_mapper, <<>>, <<>>, <<>>, TRUE>>}

WorkflowBatches ==
    UNION {{[i \in 1..n |-> Workflow(Links[i], b[i][1], b[i][2], b[i][3], <<>>, b[i][4], b[i][5])] :
                b \in [1..n -> WorkflowShapes]} : n \in 1..MaxWorkflows}

\* status tables: none, or one row, with or without the "Curation date" and
\* "Filtered on" columns
WorkflowStatusTables(n) ==
    {<<>>} \cup
    {[l \in {Links[i]} |-> [c \in {"To keep"} |-> k]] : i \in 1..n, k \in BOOLEAN} \cup
    {[l \in {Links[i]} |-> [c \in {"To keep", "Curation date", "Filtered on"} |->
                               IF c = "To keep" THEN k
                               ELSE IF c = "Curation date" THEN s_curation_date
                               ELSE s_manual]] :
        i \in 1..n, k \in BOOLEAN}

RecipeShapes ==
    {<<d_OTU_clustering, <<>>, FALSE>>,
     <<<<>>, d_metagenomic_fast, FALSE>>,
     <<d_read_mapper, d_MAGNIFICENT, FALSE>>,
     <<d_read_mapper, <<>>, TRUE>>}

RecipeBatches ==
    UNION {{[i \in 1..n |-> BiocondaRecipe(PackageNames[i], b[i][1], b[i][2], b[i][3])] :
                b \in [1..n -> RecipeShapes]} : n \in 1..MaxRecipes}

RecipeStatusTables(n) ==
    {<<>>} \cup
    {[l \in {PackageNames[i]} |-> [c \in {"keep"} |-> k]] : i \in 1..n, k \in BOOLEAN}

\* recipes/*/meta.yaml files: well-formed, failing to render, failing to parse, empty,
\* and without package.name
MetaYaml(kind, name) ==
    [kind |-> kind, name |-> name, description |-> d_OTU_clustering, summary |-> <<>>]
MetaKinds == {"ok", "render_error", "yaml_error", "empty", "no_name"}
MetaBatches ==
    UNION {{[i \in 1..n |-> MetaYaml(k[i], PackageNames[i])] : k \in [1..n -> MetaKinds]} :
              n \in 1..MaxRecipes}

\* the status TSV: not there, there without the identity column, or a table
NoStatusFile == [exists |-> FALSE, index_col |-> FALSE, rows |-> <<>>]
StatusFileWithoutIndex == [exists |-> TRUE, index_col |-> FALSE, rows |-> <<>>]
StatusFile(rows) == [exists |-> TRUE, index_col |-> TRUE, rows |-> rows]

WorkflowStatusFiles(n) ==
    {NoStatusFile, StatusFileWithoutIndex} \cup {StatusFile(t) : t \in WorkflowStatusTables(n)}
RecipeStatusFiles(n) ==
    {NoStatusFile, StatusFileWithoutIndex} \cup {StatusFile(t) : t \in RecipeStatusTables(n)}

\* the output directory before the first run
EmptyReport == [counts |-> ZeroCounts, total_deleted |-> 0, total_kept |-> 0]
EmptyDisk == [files |-> {}, validated |-> <<>>, failed |-> <<>>, report |-> EmptyReport,
              tsv |-> <<>>]

\* the output directory an earlier run left: one tool kept through its Galaxy description
OldDisk ==
    LET old == [Tool(Folder("t0", Absent, Absent, Galaxy(d_the_MAG_assembly)))
                    EXCEPT !.keep = TRUE]
        counts == tally([ZeroCounts EXCEPT !.total_folders = @ + 1], old)
    IN  generate_tsv_summary(
            write_report(
                write_metadata_once(
                    write_metadata_once(EmptyDisk, "validated", <<old.validation_data>>),
                    "failed", <<>>),
                counts, 0, 1))

----------------------------------------------------------------------------
(* Initial states: one entry point per run *)

IdleTools ==
    /\ items = <<>> /\ tools = <<>> /\ runs = <<>> /\ first_run = <<>>
    /\ report_counts = ZeroCounts
    /\ validated_metadata_list = <<>> /\ failed_metadata_list = <<>>
    /\ subfolders_to_delete = <<>> /\ deleted = {}

IdleWorkflows ==
    /\ wf_objs = <<>> /\ workflows = <<>> /\ wf_status = <<>> /\ wf_i = 0
    /\ to_keep_wf = <<>> /\ wf_calls = <<>>

IdleRecipes ==
    /\ rc_objs = <<>> /\ recipes = <<>> /\ rc_status = <<>> /\ rc_i = 0
    /\ filtered_recipes = <<>> /\ rc_calls = <<>>

IdleFiles == keywords_file = "ok" /\ status_file = NoStatusFile /\ meta_yamls = <<>>

IdleDisk == disk = EmptyDisk /\ first_disk = EmptyDisk /\ rerun = "no"

IdleRequest ==
    retries = 0 /\ attempt = 0 /\ rq_outcomes = <<>> /\ rq_slept = 0 /\ rq_result = ""

\* a unit-level run: one Tool is built and run_checks is called on it
InitRunChecks ==
    /\ command = "run_checks"
    /\ variant \in {1, 2}
    /\ pc = "start"
    /\ keywords_yml \in KeywordsDocs
    /\ rules = NotLoaded
    /\ items \in {<<Folder("t1", bt, bc, gx)>> :
                    bt \in BiotoolsFiles, bc \in BiocontainersFiles, gx \in GalaxyFiles}
    /\ tools = <<>> /\ runs = <<>> /\ first_run = <<>>
    /\ report_counts = ZeroCounts
    /\ validated_metadata_list = <<>> /\ failed_metadata_list = <<>>
    /\ subfolders_to_delete = <<>> /\ deleted = {}
    /\ IdleWorkflows /\ IdleRecipes
    /\ IdleFiles /\ IdleDisk

\* python filter_rsec.py / filter_rsec_2.py: one run on a fresh output directory; one run
\* whose keywords.yml is missing, unparseable or partial, on the outputs of an earlier
\* run; two runs in succession
InitRunFiltering ==
    /\ command = "run_filtering"
    /\ variant \in {1, 2}
    /\ pc = "start"
    /\ rules = NotLoaded
    /\ \/ /\ keywords_file = "ok" /\ keywords_yml \in KeywordsDocs
          /\ items \in Batches
          /\ disk = EmptyDisk /\ rerun = "no"
       \/ /\ \/ keywords_file \in {"missing", "unparseable"} /\ keywords_yml = NoDoc
             \/ keywords_file = "ok" /\ keywords_yml \in PartialDocs
          /\ items \in RerunBatches
          /\ disk = OldDisk /\ rerun = "no"
       \/ /\ keywords_file = "ok"
          /\ keywords_yml \in {Doc(<<kw_metage>>, <<ac_OTU, ac_MAG>>),
                              Doc(<<kw_MAGS, kw_MAGparen, kw_metage>>, <<>>)}
          /\ items \in RerunBatches
          /\ disk \in {EmptyDisk, OldDisk} /\ rerun = "pending"
       \/ /\ keywords_file = "ok" /\ keywords_yml = Doc(<<kw_comma>>, <<>>)
          /\ items = <<Folder("t1", Biotools(<<t_Genomics>>, <<>>, d_metagenomic_fast),
                               Absent, Absent)>>
          /\ disk = EmptyDisk /\ rerun = "no"
    /\ first_disk = EmptyDisk
    /\ status_file = NoStatusFile /\ meta_yamls = <<>>
    /\ tools = <<>> /\ runs = <<>> /\ first_run = <<>>
    /\ report_counts = ZeroCounts
    /\ validated_metadata_list = <<>> /\ failed_metadata_list = <<>>
    /\ subfolders_to_delete = <<>> /\ deleted = {}
    /\ IdleWorkflows /\ IdleRecipes

\* python extract_workflowhub.py filter / curate
InitWorkflows ==
    /\ variant = 0
    /\ pc = "start"
    /\ rules = NotLoaded
    /\ IdleTools
    /\ wf_objs \in WorkflowBatches
    /\ \/ /\ command = "filter_workflows" /\ keywords_yml \in KeywordsDocs
          /\ status_file \in WorkflowStatusFiles(Len(wf_objs))
       \/ /\ command = "filter_workflows" /\ keywords_yml \in PartialDocs
          /\ status_file = StatusFile(<<>>)
       \/ /\ command = "curate_workflows"
          /\ keywords_yml = Doc(<<kw_metage>>, <<ac_OTU, ac_MAG>>)
          /\ status_file \in WorkflowStatusFiles(Len(wf_objs))
    /\ workflows = [i \in 1..Len(wf_objs) |-> i]
    /\ wf_status = <<>>
    /\ wf_i = 0
    /\ to_keep_wf = <<>>
    /\ wf_calls = [i \in 1..Len(wf_objs) |-> <<>>]
    /\ IdleRecipes
    /\ keywords_file = "ok"
    /\ meta_yamls = <<>>
    /\ IdleDisk

\* python bioconda_manager.py filter / curate
InitRecipes ==
    /\ variant = 0
    /\ pc = "start"
    /\ rules = NotLoaded
    /\ IdleTools
    /\ IdleWorkflows
    /\ rc_objs \in RecipeBatches
    /\ \/ /\ command = "filter_recipes" /\ keywords_yml \in KeywordsDocs
          /\ status_file \in RecipeStatusFiles(Len(rc_objs))
       \/ /\ command = "filter_recipes" /\ keywords_yml \in PartialDocs
          /\ status_file = StatusFile(<<>>)
       \/ /\ command = "curate_recipes"
          /\ keywords_yml = Doc(<<kw_metage>>, <<ac_OTU, ac_MAG>>)
          /\ status_file \in RecipeStatusFiles(Len(rc_objs))
    /\ recipes = [i \in 1..Len(rc_objs) |-> i]
    /\ rc_status = <<>>
    /\ rc_i = 0
    /\ filtered_recipes = <<>>
    /\ rc_calls = [i \in 1..Len(rc_objs) |-> <<>>]
    /\ keywords_file = "ok"
    /\ meta_yamls = <<>>
    /\ IdleDisk

\* python bioconda_manager.py extract
InitExtractRecipes ==
    /\ command = "extract_recipes"
    /\ variant = 0
    /\ pc = "parse"
    /\ keywords_yml = Doc(<<kw_metage>>, <<ac_OTU, ac_MAG>>)
    /\ rules = NotLoaded
    /\ IdleTools /\ IdleWorkflows /\ IdleRecipes
    /\ keywords_file = "ok" /\ status_file = NoStatusFile
    /\ meta_yamls \in MetaBatches
    /\ IdleDisk

----------------------------------------------------------------------------
(* Actions of the Tool / ToolSet entry points *)

ToolVars == <<items, tools, runs, first_run, report_counts, validated_metadata_list,
              failed_metadata_list, subfolders_to_delete, deleted>>
WorkflowVars == <<wf_objs, workflows, wf_status, wf_i, to_keep_wf, wf_calls>>
RecipeVars == <<rc_objs, recipes, rc_status, rc_i, filtered_recipes, rc_calls>>
FileVars == <<keywords_file, status_file, meta_yamls>>
RequestVars == <<retries, attempt, rq_outcomes, rq_slept, rq_result>>
DiskVars == <<disk, first_disk, rerun>>

\* __main__: OUTPUT_DIR = RSEC_DIR / "infos", a sub-folder of the root directory
OUTPUT_DIR == "infos"

\* self.root_dir.iterdir() once _prepare_output_dir has made the output directory: the
\* tool folders and the output directory
iterdir(folders) == Append(folders, Folder(OUTPUT_DIR, Absent, Absent, Absent))

\* a listing that takes every directory of the root directory for a tool folder
all_items_unfiltered(listing) == listing

\* run_filtering: [item for item in self.root_dir.iterdir()
\*                 if item.is_dir() and item.name != OUTPUT_DIR.name]
all_items(listing) ==
    LET NotOutputDir(item) == item.tool_id # OUTPUT_DIR
    IN  SelectSeq(listing, NotOutputDir)

\* the script's run_checks
RunChecksOf(v, self, R) == IF v = 1 THEN run_checks(self, R) ELSE run_checks_v2(self, R)

Outcome(t) == [keep |-> t.keep, validation_data |-> t.validation_data]

\* a __main__ that goes on whatever the state of keywords.yml
config_error_ignored(file, data) == FALSE

\* __main__: `if not KEYWORDS_FILEPATH.is_file()` and the `except Exception` around the
\* load both end in sys.exit(1)
config_error(file, data) == file # "ok" \/ load_raises(data)

\* __main__: keywords_data = load_keywords_from_yaml(...), then the globals are set;
\* sys.exit(1) when the file is missing or the load raises
LoadKeywords ==
    /\ command \in {"run_checks", "run_filtering"}
    /\ pc = "start"
    /\ IF config_error(keywords_file, keywords_yml)
       THEN pc' = "abort" /\ UNCHANGED rules
       ELSE /\ \E order \in Orders(StrictSet(keywords_yml)) :
                  rules' = load_keywords_from_yaml(keywords_yml, order)
            /\ pc' = "loaded"
    /\ UNCHANGED <<command, variant, FileVars, RequestVars, DiskVars, keywords_yml, ToolVars, WorkflowVars, RecipeVars>>

\* tool = Tool(item)
NewTool ==
    /\ command = "run_checks"
    /\ pc = "loaded"
    /\ tools' = <<Tool(items[1])>>
    /\ runs' = <<0>>
    /\ first_run' = <<Outcome(Tool(items[1]))>>
    /\ pc' = "tool"
    /\ UNCHANGED <<command, variant, FileVars, RequestVars, DiskVars, keywords_yml, rules, items, report_counts,
                   validated_metadata_list, failed_metadata_list, subfolders_to_delete,
                   deleted, WorkflowVars, RecipeVars>>

\* tool.run_checks(), on the Tool built before
RunChecks ==
    /\ command = "run_checks"
    /\ pc = "tool"
    /\ runs[1] < MaxRuns
    /\ LET t == RunChecksOf(variant, tools[1], rules)
       IN  /\ tools' = <<t>>
           /\ first_run' = IF runs[1] = 0 THEN <<Outcome(t)>> ELSE first_run
    /\ runs' = <<runs[1] + 1>>
    /\ UNCHANGED <<command, variant, FileVars, RequestVars, DiskVars, pc, keywords_yml, rules, items, report_counts,
                   validated_metadata_list, failed_metadata_list, subfolders_to_delete,
                   deleted, WorkflowVars, RecipeVars>>

\* run_filtering: self._prepare_output_dir(OUTPUT_DIR) unlinks the four output files
PrepareOutputDir ==
    /\ command = "run_filtering"
    /\ pc = "loaded"
    /\ disk' = EmptyDisk
    /\ pc' = "loop"
    /\ UNCHANGED <<command, variant, FileVars, RequestVars, first_disk, rerun, keywords_yml, rules,
                   ToolVars, WorkflowVars, RecipeVars>>

\* run_filtering: one iteration of the processing loop; filter_rsec_2.py stores the
\* validation data of the tool in its JSON file at once
FilterStep ==
    /\ command = "run_filtering"
    /\ pc = "loop"
    /\ Len(tools) < Len(all_items(iterdir(items)))
    /\ LET item == all_items(iterdir(items))[Len(tools) + 1]
           tool == RunChecksOf(variant, Tool(item), rules)
       IN  /\ tools' = Append(tools, tool)
           /\ runs' = Append(runs, 1)
           /\ first_run' = Append(first_run, Outcome(tool))
           /\ report_counts' = tally([report_counts EXCEPT !.total_folders = @ + 1], tool)
           /\ IF tool.keep
              THEN /\ validated_metadata_list' = Append(validated_metadata_list, tool.validation_data)
                   /\ UNCHANGED <<failed_metadata_list, subfolders_to_delete>>
              ELSE /\ failed_metadata_list' = Append(failed_metadata_list, tool.validation_data)
                   /\ subfolders_to_delete' = Append(subfolders_to_delete, item.tool_id)
                   /\ UNCHANGED validated_metadata_list
           /\ disk' = IF variant = 1 THEN disk
                      ELSE store_tool_metadata(disk, IF tool.keep THEN "validated" ELSE "failed",
                                               tool.validation_data)
    /\ UNCHANGED <<command, variant, FileVars, RequestVars, first_disk, rerun, pc, keywords_yml, rules,
                   items, deleted, WorkflowVars, RecipeVars>>

\* run_filtering after the loop, filter_rsec.py only: the two _write_metadata_once calls
WriteMetadata ==
    /\ command = "run_filtering"
    /\ variant = 1
    /\ pc = "loop"
    /\ Len(tools) = Len(all_items(iterdir(items)))
    /\ disk' = write_metadata_once(
                   write_metadata_once(disk, "validated", validated_metadata_list),
                   "failed", failed_metadata_list)
    /\ pc' = "finalize"
    /\ UNCHANGED <<command, variant, FileVars, RequestVars, first_disk, rerun, keywords_yml, rules,
                   ToolVars, WorkflowVars, RecipeVars>>

\* run_filtering: self._finalize_operation(subfolders_to_delete) removes the non-kept
\* folders and writes the report; filter_rsec_2.py calls it right after the loop
Finalize ==
    /\ command = "run_filtering"
    /\ IF variant = 1 THEN pc = "finalize"
       ELSE pc = "loop" /\ Len(tools) = Len(all_items(iterdir(items)))
    /\ deleted' = deleted \cup Range(subfolders_to_delete)
    /\ LET total_kept == report_counts.validated_filter_1 + report_counts.validated_filter_2
                            + report_counts.validated_filter_3
       IN  disk' = write_report(disk, report_counts, Len(subfolders_to_delete), total_kept)
    /\ pc' = "summary"
    /\ UNCHANGED <<command, variant, FileVars, RequestVars, first_disk, rerun, keywords_yml, rules, items,
                   tools, runs, first_run, report_counts, validated_metadata_list,
                   failed_metadata_list, subfolders_to_delete, WorkflowVars, RecipeVars>>

\* __main__ after run_filtering: generate_tsv_summary(VALIDATED_METADATA_FILE, ...)
GenerateTsvSummary ==
    /\ command = "run_filtering"
    /\ pc = "summary"
    /\ disk' = generate_tsv_summary(disk)
    /\ pc' = "done"
    /\ UNCHANGED <<command, variant, FileVars, RequestVars, first_disk, rerun, keywords_yml, rules,
                   ToolVars, WorkflowVars, RecipeVars>>

\* the script is started a second time on the same root directory with the same
\* keywords.yml: a new process, a new ToolSet, the folders the first run left
Rerun ==
    /\ command = "run_filtering"
    /\ pc = "done"
    /\ rerun = "pending"
    /\ rerun' = "second"
    /\ first_disk' = disk
    /\ LET Left(item) == item.tool_id \notin deleted
       IN  items' = SelectSeq(items, Left)
    /\ rules' = NotLoaded
    /\ tools' = <<>> /\ runs' = <<>> /\ first_run' = <<>>
    /\ report_counts' = ZeroCounts
    /\ validated_metadata_list' = <<>> /\ failed_metadata_list' = <<>>
    /\ subfolders_to_delete' = <<>>
    /\ pc' = "start"
    /\ UNCHANGED <<command, variant, FileVars, RequestVars, disk, keywords_yml, deleted,
                   WorkflowVars, RecipeVars>>

----------------------------------------------------------------------------
(* Actions of the workflow and recipe filters *)

\* main of extract_workflowhub.py / bioconda_manager.py, `filter` and `curate`: the status
\* table is read inside the sub-command's try / except
LoadStatus ==
    /\ command \in {"filter_workflows", "curate_workflows", "filter_recipes", "curate_recipes"}
    /\ pc = "start"
    /\ LET r == load_status(command, status_file)
       IN  /\ pc' = IF r.raised THEN "status_error"
                    ELSE IF command \in {"filter_workflows", "filter_recipes"} THEN "filter"
                    ELSE "curate"
           /\ IF command \in {"filter_workflows", "curate_workflows"}
              THEN wf_status' = r.status /\ UNCHANGED rc_status
              ELSE rc_status' = r.status /\ UNCHANGED wf_status
    /\ UNCHANGED <<command, variant, FileVars, RequestVars, DiskVars, keywords_yml, rules, ToolVars,
                   wf_objs, workflows, wf_i, to_keep_wf, wf_calls,
                   rc_objs, recipes, rc_i, filtered_recipes, rc_calls>>

\* BiocondaRecipes.parse_all: one iteration of `for p in paths`
ParseStep ==
    /\ command = "extract_recipes"
    /\ pc = "parse"
    /\ rc_i < Len(meta_yamls)
    /\ LET r == parse(meta_yamls[rc_i + 1])
       IN  /\ pc' = IF r.raised THEN "error" ELSE pc
           /\ rc_i' = IF r.raised THEN rc_i ELSE rc_i + 1
           /\ IF r.status
              THEN /\ rc_objs' = Append(rc_objs, r.recipe)
                   /\ rc_calls' = Append(rc_calls, <<>>)
                   /\ recipes' = Append(recipes, Len(rc_objs) + 1)
              ELSE UNCHANGED <<rc_objs, rc_calls, recipes>>
    /\ UNCHANGED <<command, variant, FileVars, RequestVars, DiskVars, keywords_yml, rules, ToolVars,
                   WorkflowVars, rc_status, filtered_recipes>>

\* main, extract: parse_all has returned, recipes.export_to_json(args.all)
ParseDone ==
    /\ command = "extract_recipes"
    /\ pc = "parse"
    /\ rc_i = Len(meta_yamls)
    /\ pc' = "done"
    /\ UNCHANGED <<command, variant, FileVars, RequestVars, DiskVars, keywords_yml, rules, ToolVars,
                   WorkflowVars, RecipeVars>>

\* Workflows.curate_workflows: the loop over self.workflows, then self.workflows = curated_wfs
CurateWorkflows ==
    /\ command = "curate_workflows"
    /\ pc = "curate"
    /\ LET c == [ref \in DOMAIN wf_objs |-> curate_workflow(wf_objs[ref], wf_status)]
           Curated(ref) == c[ref].kept
       IN  /\ wf_objs' = [ref \in DOMAIN wf_objs |->
                            IF ref \in Range(workflows) THEN c[ref].self ELSE wf_objs[ref]]
           /\ workflows' = SelectSeq(workflows, Curated)
    /\ pc' = "done"
    /\ UNCHANGED <<command, variant, FileVars, RequestVars, DiskVars, keywords_yml, rules, ToolVars,
                   wf_status, wf_i, to_keep_wf, wf_calls, RecipeVars>>

\* BiocondaRecipes.curate: the loop over self.recipes, then self.recipes = curated_recipes
CurateRecipes ==
    /\ command = "curate_recipes"
    /\ pc = "curate"
    /\ LET c == [ref \in DOMAIN rc_objs |-> curate_recipe(rc_objs[ref], rc_status)]
           Curated(ref) == c[ref].kept
       IN  /\ rc_objs' = [ref \in DOMAIN rc_objs |->
                            IF ref \in Range(recipes) THEN c[ref].self ELSE rc_objs[ref]]
           /\ recipes' = SelectSeq(recipes, Curated)
    /\ pc' = "done"
    /\ UNCHANGED <<command, variant, FileVars, RequestVars, DiskVars, keywords_yml, rules, ToolVars,
                   WorkflowVars, rc_status, rc_i, filtered_recipes, rc_calls>>

\* filter_workflows_by_tags: one iteration of `for w in self.workflows`
FilterWorkflowStep ==
    /\ command = "filter_workflows"
    /\ pc = "filter"
    /\ wf_i < Len(workflows)
    /\ LET ref == workflows[wf_i + 1]
           r == filter_workflow(wf_objs[ref], keywords_yml, wf_status)
       IN  /\ wf_objs' = [wf_objs EXCEPT ![ref] = r.self]
           /\ wf_calls' = [wf_calls EXCEPT ![ref] = r.calls]
           /\ to_keep_wf' = IF r.kept THEN Append(to_keep_wf, ref) ELSE to_keep_wf
           /\ pc' = IF r.raised THEN "error" ELSE pc
           /\ wf_i' = IF r.raised THEN wf_i ELSE wf_i + 1
    /\ UNCHANGED <<command, variant, FileVars, RequestVars, DiskVars, keywords_yml, rules, ToolVars, workflows, wf_status,
                   RecipeVars>>

\* filter_workflows_by_tags: self.workflows = to_keep_wf
FilterWorkflowsDone ==
    /\ command = "filter_workflows"
    /\ pc = "filter"
    /\ wf_i = Len(workflows)
    /\ workflows' = to_keep_wf
    /\ pc' = "done"
    /\ UNCHANGED <<command, variant, FileVars, RequestVars, DiskVars, keywords_yml, rules, ToolVars, wf_objs, wf_status,
                   wf_i, to_keep_wf, wf_calls, RecipeVars>>

\* filter_by_keywords: one iteration of `for name, recipe in self.recipes.items()`
FilterRecipeStep ==
    /\ command = "filter_recipes"
    /\ pc = "filter"
    /\ rc_i < Len(recipes)
    /\ LET ref == recipes[rc_i + 1]
           r == filter_recipe(rc_objs[ref], keywords_yml, rc_status)
       IN  /\ rc_objs' = [rc_objs EXCEPT ![ref] = r.self]
           /\ rc_calls' = [rc_calls EXCEPT ![ref] = r.calls]
           /\ filtered_recipes' = IF r.kept THEN Append(filtered_recipes, ref)
                                  ELSE filtered_recipes
           /\ pc' = IF r.raised THEN "error" ELSE pc
           /\ rc_i' = IF r.raised THEN rc_i ELSE rc_i + 1
    /\ UNCHANGED <<command, variant, FileVars, RequestVars, DiskVars, keywords_yml, rules, ToolVars, WorkflowVars, recipes,
                   rc_status>>

\* filter_by_keywords: self.recipes = filtered_recipes
FilterRecipesDone ==
    /\ command = "filter_recipes"
    /\ pc = "filter"
    /\ rc_i = Len(recipes)
    /\ recipes' = filtered_recipes
    /\ pc' = "done"
    /\ UNCHANGED <<command, variant, FileVars, RequestVars, DiskVars, keywords_yml, rules, ToolVars, WorkflowVars, rc_objs,
                   rc_status, rc_i, filtered_recipes, rc_calls>>

----------------------------------------------------------------------------
\* utils.get_request_json(url, headers, retries): the call starts with attempt = 0
InitGetRequestJson ==
    /\ command = "get_request_json"
    /\ variant = 0
    /\ pc = "request"
    /\ keywords_yml = Doc(<<kw_metage>>, <<ac_OTU, ac_MAG>>)
    /\ rules = NotLoaded
    /\ IdleTools /\ IdleWorkflows /\ IdleRecipes
    /\ IdleFiles /\ IdleDisk
    /\ retries \in 0..MaxRetries
    /\ attempt = 0 /\ rq_outcomes = <<>> /\ rq_slept = 0 /\ rq_result = ""

Init ==
    \/ /\ InitRunChecks \/ InitRunFiltering \/ InitWorkflows \/ InitRecipes
           \/ InitExtractRecipes
       /\ IdleRequest
    \/ InitGetRequestJson

----------------------------------------------------------------------------
(* utils.get_request_json *)

\* what one pass through the try block can do: r.json() returns; requests.get raises the
\* built-in ConnectionError; requests.get raises requests.exceptions.ConnectionError
\* (a RequestException, not a built-in ConnectionError); raise_for_status raises
\* HTTPError; r.json() finds no valid JSON
RequestOutcomes ==
    {"json", "ConnectionError", "requests.ConnectionError", "HTTPError", "invalid_json"}

\* the except clause that handles an outcome, in the order the clauses are written;
\* the error of r.json() is a RequestException in the recent versions of requests and
\* a plain ValueError in the older ones
ExceptClauses(outcome) ==
    CASE outcome = "ConnectionError" -> {"ConnectionError"}
      [] outcome \in {"requests.ConnectionError", "HTTPError"} -> {"RequestException"}
      [] outcome = "invalid_json" -> {"RequestException", "ValueError"}
      [] OTHER -> {}

\* one iteration of `while attempt < retries`
RequestAttempt ==
    /\ command = "get_request_json"
    /\ pc = "request"
    /\ attempt < retries
    /\ \E outcome \in RequestOutcomes :
          /\ rq_outcomes' = Append(rq_outcomes, outcome)
          /\ IF outcome = "json"
             THEN /\ rq_result' = "json" /\ pc' = "returned"
                  /\ UNCHANGED <<attempt, rq_slept>>
             ELSE \E clause \in ExceptClauses(outcome) :
                    CASE clause = "ConnectionError" ->
                           /\ attempt' = attempt + 1
                           /\ IF attempt + 1 = retries
                              THEN /\ rq_result' = "ConnectionError" /\ pc' = "raised"
                                   /\ UNCHANGED rq_slept
                              ELSE /\ rq_slept' = rq_slept + 1
                                   /\ UNCHANGED <<rq_result, pc>>
                      [] clause = "RequestException" ->
                           /\ rq_result' = "SystemExit" /\ pc' = "raised"
                           /\ UNCHANGED <<attempt, rq_slept>>
                      [] OTHER ->
                           /\ rq_result' = "ValueError" /\ pc' = "raised"
                           /\ UNCHANGED <<attempt, rq_slept>>
    /\ UNCHANGED <<command, variant, FileVars, DiskVars, keywords_yml, rules, ToolVars,
                   WorkflowVars, RecipeVars, retries>>

\* the loop condition is false: return {}
RequestExhausted ==
    /\ command = "get_request_json"
    /\ pc = "request"
    /\ attempt >= retries
    /\ rq_result' = "empty"
    /\ pc' = "returned"
    /\ UNCHANGED <<command, variant, FileVars, DiskVars, keywords_yml, rules, ToolVars,
                   WorkflowVars, RecipeVars, retries, attempt, rq_outcomes, rq_slept>>

Next ==
    \/ RequestAttempt \/ RequestExhausted
    \/ LoadKeywords \/ NewTool \/ RunChecks
    \/ PrepareOutputDir \/ FilterStep \/ WriteMetadata \/ Finalize \/ GenerateTsvSummary
    \/ Rerun
    \/ LoadStatus
    \/ FilterWorkflowStep \/ FilterWorkflowsDone \/ CurateWorkflows
    \/ FilterRecipeStep \/ FilterRecipesDone \/ CurateRecipes
    \/ ParseStep \/ ParseDone

Spec == Init /\ [][Next]_vars

----------------------------------------------------------------------------
(* Vocabulary of the properties *)

\* the match keys a check level writes into validation_data
LevelKeys(k) ==
    CASE k = 1 -> {"EDAM_topics", "EDAM_operation"}
      [] k = 2 -> {"biocontainers_keywords"}
      [] OTHER -> {"biotools_description", "biocontainers_description", "galaxy_description"}

\* the check levels that have left a match key
LevelsIn(vd) == {k \in 1..3 : LevelKeys(k) \cap DOMAIN vd # {}}

\* the check levels whose check, called alone on a Tool just built from the folder, succeeds
SucceedingLevels(v, item, R) ==
    LET self == Tool(item)
        c1 == IF v = 1 THEN check_criteria_1(self, R) ELSE check_criteria_1_v2(self, R)
        c3 == IF v = 1 THEN check_criteria_3(self, R) ELSE check_criteria_3_v2(self, R)
    IN  {k \in 1..3 : (CASE k = 1 -> c1 [] k = 2 -> check_criteria_2(self, R) [] OTHER -> c3).ok}

\* the Tools run_checks has been called on
Processed == {i \in 1..Len(tools) : runs[i] >= 1}

Sources == {"biotools", "biocontainers", "galaxy"}
DescriptionKey ==
    [biotools |-> "biotools_description", biocontainers |-> "biocontainers_description",
     galaxy |-> "galaxy_description"]

\* the raw description a folder offers for a source ("" when the file is missing)
RawDescription(item, src) == IF item[src].present THEN item[src].description ELSE <<>>

\* T stands in text as a whole word: not preceded and not followed by a word character
OccursAsWord(T, text) ==
    \E i \in 1..(Len(text) - Len(T) + 1) :
        /\ SubSeq(text, i, i + Len(T) - 1) = T
        /\ i = 1 \/ ~IsWordChar(text[i - 1])
        /\ i + Len(T) > Len(text) \/ ~IsWordChar(text[i + Len(T)])

\* a topic of the bio.tools file is one of the target topics
TopicMatches(item, R) ==
    item.biotools.present /\ Range(item.biotools.topic) \cap Range(R.topics) # {}

\* some description of the folder holds a strict term as a whole word
DescriptionHoldsStrict(item, R) ==
    \E src \in Sources : \E j \in 1..Len(R.stricts) :
        OccursAsWord(R.stricts[j], RawDescription(item, src))

----------------------------------------------------------------------------
(* C1 -- precedence of the three checks *)

\* C1: after run_checks at most one check level has left a match key in validation_data,
\* and it is the highest-priority level whose check succeeds on the Tool; a Tool whose
\* EDAM topic matches and whose description holds a strict acronym carries an EDAM key
\* and no description key.
C1_Precedence ==
    \A i \in Processed :
        LET S == SucceedingLevels(variant, tools[i].item, rules)
            L == LevelsIn(tools[i].validation_data)
        IN  /\ Cardinality(L) <= 1
            /\ L = (IF S = {} THEN {} ELSE {Min(S)})
            /\ TopicMatches(tools[i].item, rules) /\ DescriptionHoldsStrict(tools[i].item, rules)
                  => L = {1}

\* a processed Tool whose topic matches and whose description holds a strict acronym
C1_Witness ==
    \E i \in Processed :
        /\ TopicMatches(tools[i].item, rules)
        /\ DescriptionHoldsStrict(tools[i].item, rules)
        /\ 3 \in SucceedingLevels(variant, tools[i].item, rules)
        /\ tools[i].keep
        /\ LevelsIn(tools[i].validation_data) = {1}

----------------------------------------------------------------------------
(* C2 -- idempotence of run_checks *)

\* C2: a second call of run_checks on the same Tool with the same rule set leaves keep and
\* every key and value of validation_data as the first call left them.
C2_Idempotent ==
    \A i \in 1..Len(tools) : runs[i] >= 2 => Outcome(tools[i]) = first_run[i]

\* run_checks has run twice on a Tool it keeps with a match key
C2_Witness ==
    \E i \in 1..Len(tools) :
        /\ runs[i] >= 2
        /\ tools[i].keep
        /\ LevelsIn(tools[i].validation_data) # {}

----------------------------------------------------------------------------
(* C3 -- curation override *)

\* workflows / recipes the loop has handled, the one on which it raised included
HandledWorkflows ==
    {ref \in 1..Len(wf_objs) :
        command = "filter_workflows" /\ (ref <= wf_i \/ (pc = "error" /\ ref = wf_i + 1))}
HandledRecipes ==
    {ref \in 1..Len(rc_objs) :
        command = "filter_recipes" /\ (ref <= rc_i \/ (pc = "error" /\ ref = rc_i + 1))}

\* the status table marks the record keep=true
StatusKeepsWorkflow(ref) ==
    wf_objs[ref].link \in DOMAIN wf_status /\ wf_status[wf_objs[ref].link]["To keep"]
StatusKeepsRecipe(ref) ==
    rc_objs[ref].name \in DOMAIN rc_status /\ rc_status[rc_objs[ref].name]["keep"]

----------------------------------------------------------------------------
(* C4 -- records without a keep=true status row are evaluated automatically *)

\* C4: a workflow (recipe) with no status row, or with a keep=false row, has the automatic
\* checks called on it, and once the filter is done it is in the collection exactly when
\* an automatic check matches it.
C4_AutomaticEvaluation ==
    /\ \A ref \in HandledWorkflows :
          ~StatusKeepsWorkflow(ref) =>
              /\ wf_calls[ref] # <<>>
              /\ pc = "done" =>
                    (ref \in Range(workflows) <=> test_chain(wf_objs[ref], keywords_yml).kept)
    /\ \A ref \in HandledRecipes :
          ~StatusKeepsRecipe(ref) =>
              /\ rc_calls[ref] # <<>>
              /\ pc = "done" =>
                    (ref \in Range(recipes) <=> test_about(rc_objs[ref], keywords_yml).ok)

----------------------------------------------------------------------------
(* C5 -- whole-word match of the strict acronyms in the descriptions *)

\* the descriptions of the folder that are not empty
NonEmptySources(item) == {src \in Sources : RawDescription(item, src) # <<>>}

\* the strict terms that stand as a whole word in the raw text
StrictsIn(R, text) == {R.stricts[j] : j \in {n \in 1..Len(R.stricts) : OccursAsWord(R.stricts[n], text)}}

\* some fragment pattern is found in some description of the folder
DescriptionHoldsFragment(item, R) ==
    \E src \in Sources : first_pattern_hit(R.compiled_fragments, lower(RawDescription(item, src))).found

\* C5: on a Tool that neither check 1 nor check 2 keeps, a strict term matches a
\* description exactly when it stands in the raw description as a whole word: a
\* description holding a strict term as a whole word ("the MAG assembly", term "MAG") has
\* the Tool kept by check 3, with that term as value when it is the only description,
\* and a description holding it only inside a longer word ("MAGNIFICENT") is no match.
C5_WholeWordStrict ==
    \A i \in Processed :
        LET item == tools[i].item
            vd == tools[i].validation_data
            S == SucceedingLevels(variant, item, rules)
        IN  (1 \notin S /\ 2 \notin S) =>
              /\ DescriptionHoldsStrict(item, rules) =>
                    /\ tools[i].keep
                    /\ LevelsIn(vd) = {3}
              /\ \A src \in Sources :
                    (NonEmptySources(item) = {src} /\ StrictsIn(rules, RawDescription(item, src)) # {})
                        => /\ DescriptionKey[src] \in DOMAIN vd
                           /\ vd[DescriptionKey[src]] \in StrictsIn(rules, RawDescription(item, src))
              /\ (~DescriptionHoldsStrict(item, rules) /\ ~DescriptionHoldsFragment(item, rules))
                    => ~tools[i].keep /\ LevelsIn(vd) = {}

----------------------------------------------------------------------------
(* C6 -- dual registration of the upper-case keywords *)

\* the keywords entries of the document that are not blank
KeywordEntries == {keywords_yml.keywords[i] : i \in {j \in 1..Len(keywords_yml.keywords) : NonBlank(keywords_yml.keywords[j])}}
AcronymEntries == {keywords_yml.acronyms[i] : i \in {j \in 1..Len(keywords_yml.acronyms) : NonBlank(keywords_yml.acronyms[j])}}

\* an entry without any of . * + ? that upper-casing leaves unchanged
UpperCaseLiteral(k) == ~HasMeta(k) /\ upper(k) = k

RulesLoaded == command \in {"run_checks", "run_filtering"} /\ pc \notin {"start", "abort"}

\* C6 as stated: every upper-case keywords entry without metacharacter is both a compiled
\* fragment pattern and a strict term, every entry with a metacharacter is a fragment only.
C6_DualRegistration ==
    RulesLoaded =>
        \A k \in KeywordEntries :
            /\ UpperCaseLiteral(k) =>
                  /\ k \in Range(rules.compiled_fragments)
                  /\ upper(strip(k)) \in Range(rules.stricts)
            /\ HasMeta(k) =>
                  /\ k \in Range(rules.compiled_fragments)
                  /\ upper(strip(k)) \notin Range(rules.stricts)

\* C6 amended: every upper-case keywords entry without metacharacter is a strict term, and
\* a compiled fragment pattern exactly when it compiles as a regular expression; an entry
\* with a metacharacter is never a strict term (unless listed under acronyms) and is a
\* fragment pattern when it compiles.
C6_DualRegistrationOfCompilable ==
    RulesLoaded =>
        \A k \in KeywordEntries :
            /\ UpperCaseLiteral(k) => upper(strip(k)) \in Range(rules.stricts)
            /\ k \in Range(rules.compiled_fragments) <=> Compiles(k)
            /\ (HasMeta(k) /\ \A a \in AcronymEntries : upper(strip(a)) # upper(strip(k)))
                  => upper(strip(k)) \notin Range(rules.stricts)

\* keywords ["MAGS", "metage.*"] loaded: "MAGS" in both sets, "metage.*" a fragment only
C6_Witness ==
    /\ RulesLoaded
    /\ keywords_yml.keywords = <<kw_MAGS, kw_metage>>
    /\ kw_MAGS \in Range(rules.compiled_fragments)
    /\ kw_MAGS \in Range(rules.stricts)
    /\ kw_metage \in Range(rules.compiled_fragments)
    /\ upper(kw_metage) \notin Range(rules.stricts)

----------------------------------------------------------------------------
(* C7 -- the end-to-end batch of three Tools *)

\* a folder matching through the EDAM topic "Metagenomics"
MatchesByTopic(item) ==
    item.biotools.present /\ t_Metagenomics \in Range(item.biotools.topic)

\* a folder whose only match is the acronym "OTU" in a description
MatchesByOTUOnly(item) ==
    /\ ~item.biotools.present /\ ~item.galaxy.present
    /\ item.biocontainers.present
    /\ item.biocontainers.keywords = <<>>
    /\ item.biocontainers.description = d_OTU_clustering

\* a folder matching nothing
MatchesNothing(item) ==
    /\ ~item.biotools.present /\ ~item.biocontainers.present
    /\ item.galaxy.present
    /\ item.galaxy.description = d_read_mapper

EndToEndBatch ==
    /\ Len(items) = 3
    /\ t_Metagenomics \in Range(keywords_yml.edam.topics)
    /\ ac_OTU \in Range(keywords_yml.acronyms)
    /\ \E p \in Orders(1..3) :
          MatchesByTopic(items[p[1]]) /\ MatchesByOTUOnly(items[p[2]]) /\ MatchesNothing(items[p[3]])

\* C7: run_filtering on a batch of one Tool matching by topic "Metagenomics", one matching
\* only by the acronym "OTU" in its description and one matching nothing ends with 2 kept,
\* 1 discarded and the counts 1, 0, 1, 1.
C7_EndToEnd ==
    (command = "run_filtering" /\ pc = "done" /\ EndToEndBatch) =>
        /\ Len(validated_metadata_list) = 2
        /\ Len(failed_metadata_list) = 1
        /\ Cardinality(deleted) = 1
        /\ report_counts.validated_filter_1 = 1
        /\ report_counts.validated_filter_2 = 0
        /\ report_counts.validated_filter_3 = 1
        /\ report_counts.did_not_pass_any = 1

----------------------------------------------------------------------------
(* C8 -- keep and the match reason after an automatic evaluation *)

\* the workflows the loop has passed that were evaluated by the automatic checks
EvaluatedWorkflows == {ref \in 1..Len(wf_objs) : ref <= wf_i /\ wf_calls[ref] # <<>>}

\* some automatic check of the workflow filter succeeds on the workflow
SomeTestSucceeds(w, keywords) ==
    \/ test_edam_terms(w, keywords.edam).ok
    \/ test_tags(w, keywords).ok
    \/ test_name(w, keywords).ok
    \/ test_description(w, keywords).ok

\* the Tool part: keep is true and a match key is recorded exactly when a check succeeds
ToolReasonIffCheck ==
    \A i \in Processed :
        LET S == SucceedingLevels(variant, tools[i].item, rules)
            L == LevelsIn(tools[i].validation_data)
        IN  /\ (tools[i].keep /\ L # {}) <=> S # {}
            /\ S = {} => (~tools[i].keep /\ L = {})

----------------------------------------------------------------------------
(* C9 -- one counter and one list per Tool *)

\* the check level that produced the keep decision of the folder (0: none)
DecidingLevel(v, item, R) ==
    LET S == SucceedingLevels(v, item, R) IN IF S = {} THEN 0 ELSE Min(S)

\* the Tools of run_filtering decided at a level
DecidedAt(k) == {i \in 1..Len(tools) : DecidingLevel(variant, tools[i].item, rules) = k}

ToolIds(list) == {list[i].tool_id : i \in 1..Len(list)}

\* C9: in run_filtering each counter validated_filter_k counts the Tools whose keep
\* decision was produced by check k, did_not_pass_any counts the discarded Tools, so
\* every Tool adds one to exactly one counter; every Tool is in exactly one of the kept
\* and the discarded list.
C9_OneCounterPerTool ==
    command = "run_filtering" =>
        \A level \in {[i \in 1..Len(tools) |-> DecidingLevel(variant, tools[i].item, rules)]} :
        LET at(k) == {i \in 1..Len(tools) : level[i] = k}
            ids(S) == {tools[i].item.tool_id : i \in S}
        IN  /\ report_counts.total_folders = Len(tools)
            /\ report_counts.validated_filter_1 = Cardinality(at(1))
            /\ report_counts.validated_filter_2 = Cardinality(at(2))
            /\ report_counts.validated_filter_3 = Cardinality(at(3))
            /\ report_counts.did_not_pass_any = Cardinality(at(0))
            /\ Len(validated_metadata_list) + Len(failed_metadata_list) = Len(tools)
            /\ ToolIds(validated_metadata_list) = ids(at(1) \cup at(2) \cup at(3))
            /\ ToolIds(failed_metadata_list) = ids(at(0))
            /\ ToolIds(validated_metadata_list) \cap ToolIds(failed_metadata_list) = {}
            /\ Range(subfolders_to_delete) = ToolIds(failed_metadata_list)

\* a finished batch with a Tool decided at each level and a discarded one
C9_Witness ==
    /\ command = "run_filtering"
    /\ pc = "done"
    /\ DecidedAt(0) # {} /\ DecidedAt(1) # {} /\ DecidedAt(3) # {}
    /\ report_counts.validated_filter_1 = 1
    /\ report_counts.validated_filter_3 = 1
    /\ report_counts.did_not_pass_any = 1

----------------------------------------------------------------------------
(* C10 -- the first rule in declared order wins *)

\* the strict terms in the order the configuration declares them: the acronyms, then the
\* upper-case keywords
DeclaredStricts ==
    LET acr == SelectSeq(keywords_yml.acronyms, NonBlank)
        IsDual(k) == NonBlank(k) /\ UpperCaseLiteral(k)
        dual == SelectSeq(keywords_yml.keywords, IsDual)
        all == acr \o dual
    IN  [i \in 1..Len(all) |-> upper(strip(all[i]))]

\* the first declared strict term standing as a whole word in the text (text holds one)
FirstDeclaredIn(text) ==
    DeclaredStricts[Min({j \in 1..Len(DeclaredStricts) : OccursAsWord(DeclaredStricts[j], text)})]

\* the keywords and acronyms of the document, in declared order, that has_keyword finds in
\* the target: keywords without regard to case, acronyms case-sensitively
DeclaredHits(target) ==
    LET kws == keywords_yml.keywords
        acs == keywords_yml.acronyms
        all == kws \o acs
    IN  {j \in 1..Len(all) :
            format_regex_search(all[j], target, j <= Len(kws))}

\* C10: the recorded reason is the first matching rule in declared order: a Tool kept by
\* the strict step of the description check records the first declared acronym that its
\* description holds, and a workflow kept by test_name records the first declared keyword
\* (then acronym) found in its name.
C10_FirstDeclaredWins ==
    /\ \A i \in Processed :
          LET item == tools[i].item
              vd == tools[i].validation_data
              S == SucceedingLevels(variant, item, rules)
          IN  \A src \in Sources :
                (/\ 1 \notin S /\ 2 \notin S
                 /\ NonEmptySources(item) = {src}
                 /\ StrictsIn(rules, RawDescription(item, src)) # {})
                    => /\ DescriptionKey[src] \in DOMAIN vd
                       /\ vd[DescriptionKey[src]] = FirstDeclaredIn(RawDescription(item, src))
    /\ \A ref \in EvaluatedWorkflows :
          (wf_calls[ref][Len(wf_calls[ref])] = "test_name" /\ ref \in Range(to_keep_wf))
              => LET all == keywords_yml.keywords \o keywords_yml.acronyms
                 IN  /\ DeclaredHits(wf_objs[ref].name) # {}
                     /\ wf_objs[ref].filtered_on
                           = reason_of(all[Min(DeclaredHits(wf_objs[ref].name))], s_name)

----------------------------------------------------------------------------
(* C11: loading the curation status never aborts a run: with a missing status  *)
(* file, or one lacking the identity column, the filter and curate commands  *)
(* of extract_workflowhub and bioconda_manager go on with an empty status      *)
(* mapping, so that every record is processed as having no status entry.       *)

StatusCommands == {"filter_workflows", "curate_workflows", "filter_recipes", "curate_recipes"}

UnreadableStatusFile == status_file \in {NoStatusFile, StatusFileWithoutIndex}

C11_StatusLoadNeverAborts ==
    (command \in StatusCommands /\ UnreadableStatusFile) =>
        /\ pc # "status_error"
        /\ pc # "start" => wf_status = <<>> /\ rc_status = <<>>

----------------------------------------------------------------------------
(* C20: after curation (BiocondaRecipes.curate, Workflows.curate_workflows)    *)
(* the collection holds exactly the records whose keep decision is true once   *)
(* the status table is applied: a record whose status row says keep=true is    *)
(* retained, one whose row says keep=false is removed, and a record without a  *)
(* row is retained iff its own keep was true.                                   *)

\* the keep decision of a workflow / recipe once the status table is applied; a record
\* without a row is left untouched by the curation, so its keep is still its prior keep
DecidedKeepWorkflow(ref) ==
    IF wf_objs[ref].link \in DOMAIN wf_status
    THEN wf_status[wf_objs[ref].link]["To keep"]
    ELSE wf_objs[ref].keep
DecidedKeepRecipe(ref) ==
    IF rc_objs[ref].name \in DOMAIN rc_status
    THEN rc_status[rc_objs[ref].name]["keep"]
    ELSE rc_objs[ref].keep

C20_CuratedExactlyKept ==
    /\ (command = "curate_workflows" /\ pc = "done") =>
          \A ref \in 1..Len(wf_objs) : ref \in Range(workflows) <=> DecidedKeepWorkflow(ref)
    /\ (command = "curate_recipes" /\ pc = "done") =>
          \A ref \in 1..Len(rc_objs) : ref \in Range(recipes) <=> DecidedKeepRecipe(ref)

----------------------------------------------------------------------------
(* C12: a configuration error is fatal before any processing: when the        *)
(* rule-set document is missing or unparseable the filter_rsec run aborts      *)
(* before any Tool is evaluated, before any previous output file is removed    *)
(* or written, and before any folder is deleted.                               *)

BrokenRuleSet == command = "run_filtering" /\ keywords_file \in {"missing", "unparseable"}

C12_ConfigErrorIsFatal ==
    BrokenRuleSet =>
        /\ pc \in {"start", "abort"}
        /\ rules = NotLoaded
        /\ tools = <<>> /\ report_counts = ZeroCounts
        /\ disk = OldDisk
        /\ deleted = {}

\* an aborted run: folders to process and the four files of an earlier run, all untouched
C12_Witness ==
    /\ BrokenRuleSet
    /\ pc = "abort"
    /\ items # <<>>
    /\ disk.files = OutputFiles
    /\ disk.validated # <<>>

----------------------------------------------------------------------------
(* C13: a rule-set document that lacks the edam, keywords or acronyms section  *)
(* (or has it empty) is treated as having an empty list for that section and   *)
(* causes no error, neither when the rule set is compiled                      *)
(* (load_keywords_from_yaml) nor when it is matched with (utils.has_keyword,   *)
(* Workflow.test_tags, test_name, test_description): a target that matches no  *)
(* keyword simply yields no match.                                             *)

\* sections of the document that are missing or without a value
PartialSections == keywords_yml.missing \cup keywords_yml.null

PartialRuleSet == keywords_file = "ok" /\ PartialSections # {}

C13_PartialRuleSetTolerated ==
    PartialRuleSet =>
        /\ command = "run_filtering" =>
              /\ pc # "abort"
              /\ RulesLoaded =>
                    /\ "edam" \in PartialSections => rules.topics = <<>> /\ rules.operations = <<>>
                    /\ "keywords" \in PartialSections => rules.compiled_fragments = <<>>
                    /\ "acronyms" \in PartialSections => rules.stricts = <<>>
        /\ \A ref \in HandledWorkflows :
              /\ ~test_tags(wf_objs[ref], keywords_yml).raised
              /\ ~test_name(wf_objs[ref], keywords_yml).raised
              /\ ~test_description(wf_objs[ref], keywords_yml).raised
        /\ \A ref \in HandledRecipes :
              ~has_keyword(keywords_yml, rc_objs[ref].description, s_description).raised

----------------------------------------------------------------------------
(* C14: in load_keywords_from_yaml a keywords entry that fails to compile as a *)
(* regex is skipped with a warning and does not abort the load; every other    *)
(* well-formed entry is still compiled, and the compiled fragment patterns     *)
(* keep the declared order of the remaining entries.                           *)

\* positions of the keywords entries that compile, and of those that do not
WellFormedEntries ==
    {i \in 1..Len(keywords_yml.keywords) :
        NonBlank(keywords_yml.keywords[i]) /\ Compiles(keywords_yml.keywords[i])}
MalformedEntries ==
    {i \in 1..Len(keywords_yml.keywords) :
        NonBlank(keywords_yml.keywords[i]) /\ ~Compiles(keywords_yml.keywords[i])}

\* a document that parses and has every section
CompleteRuleSet == keywords_file = "ok" /\ PartialSections = {}

C14_MalformedPatternSkipped ==
    (command \in {"run_checks", "run_filtering"} /\ CompleteRuleSet) =>
        /\ pc # "abort"
        /\ RulesLoaded =>
              /\ Len(rules.compiled_fragments) = Cardinality(WellFormedEntries)
              /\ \A i \in WellFormedEntries :
                    rules.compiled_fragments[Cardinality({j \in WellFormedEntries : j <= i})]
                        = keywords_yml.keywords[i]
              /\ Len(rules.warnings) = Cardinality(MalformedEntries)
              /\ \A i \in MalformedEntries : keywords_yml.keywords[i] \in Range(rules.warnings)

\* "MAG(" between "MAGS" and "metage.*": the two others are compiled, in that order
C14_Witness ==
    /\ RulesLoaded
    /\ keywords_yml.keywords = <<kw_MAGS, kw_MAGparen, kw_metage>>
    /\ rules.compiled_fragments = <<kw_MAGS, kw_metage>>
    /\ rules.warnings = <<kw_MAGparen>>

----------------------------------------------------------------------------
(* C15: a malformed individual metadata unit never aborts the batch: the       *)
(* offending record is excluded from the batch and all remaining records are   *)
(* still processed, both in BiocondaRecipes.parse_all when a recipe's          *)
(* meta.yaml fails to render or parse and in ToolSet.run_filtering when a      *)
(* tool's metadata file fails to load.                                         *)

\* meta.yaml files that render and parse into a named recipe, in glob order
WellFormedRecipes ==
    LET WellFormed(file) == file.kind = "ok"
        files == SelectSeq(meta_yamls, WellFormed)
    IN  [i \in 1..Len(files) |-> files[i].name]

\* folders of the root directory with a metadata file that does not load
FoldersWithMalformedFile ==
    {items[i].tool_id : i \in {j \in 1..Len(items) :
        \E src \in {"biotools", "biocontainers", "galaxy"} : items[j][src].malformed}}

C15_MalformedUnitSkipped ==
    /\ command = "extract_recipes" =>
          /\ pc # "error"
          /\ pc = "done" =>
                [i \in 1..Len(recipes) |-> rc_objs[recipes[i]].name] = WellFormedRecipes
    /\ (command = "run_filtering" /\ pc \in {"summary", "done"}) =>
          /\ Len(tools) = Len(items)
          /\ \A i \in 1..Len(validated_metadata_list) :
                validated_metadata_list[i]["tool_id"] \notin FoldersWithMalformedFile

----------------------------------------------------------------------------
(* C16 -- the keyword-list check (check_criteria_2) *)

\* the candidate terms of a folder: the entries of its BioContainers keywords, stripped
Candidates(item) ==
    [i \in 1..Len(item.biocontainers.keywords) |-> strip(item.biocontainers.keywords[i])]

\* the candidate is, upper-cased, one of the strict terms
IsStrictTerm(c, R) == upper(c) \in Range(R.stricts)

\* the substring of the lower-cased candidate the first fragment pattern that matches finds
FragmentMatch(c, R) == first_pattern_hit(R.compiled_fragments, lower(c))

StrictCandidates(item, R) ==
    {j \in 1..Len(Candidates(item)) : IsStrictTerm(Candidates(item)[j], R)}
FragmentCandidates(item, R) ==
    {j \in 1..Len(Candidates(item)) : FragmentMatch(Candidates(item)[j], R).found}

\* C16 as stated: the candidates are examined in list order and each of them is tried
\* against the strict terms first (recording the original-case term) and otherwise against
\* the fragment patterns (recording the matched substring); the recorded value comes from
\* the first candidate of the list that matches by either rule.
C16_FirstMatchingCandidate ==
    \A i \in Processed :
        LET item == tools[i].item
            vd == tools[i].validation_data
            m == StrictCandidates(item, rules) \cup FragmentCandidates(item, rules)
        IN  1 \notin LevelsIn(vd) =>
                /\ "biocontainers_keywords" \in DOMAIN vd <=> m # {}
                /\ m # {} =>
                      LET c == Candidates(item)[Min(m)]
                      IN  vd["biocontainers_keywords"] =
                              IF IsStrictTerm(c, rules) THEN c ELSE FragmentMatch(c, rules).group

\* C16 as amended: the strict terms are tried on all the candidates first, in list order,
\* recording the original-case term of the first candidate that is a strict term; only
\* when no candidate is a strict term are the candidates tried, in list order, against the
\* fragment patterns, recording the substring matched in the first candidate that matches.
C16_StrictPassThenFragmentPass ==
    \A i \in Processed :
        LET item == tools[i].item
            vd == tools[i].validation_data
            s == StrictCandidates(item, rules)
            f == FragmentCandidates(item, rules)
        IN  1 \notin LevelsIn(vd) =>
                /\ "biocontainers_keywords" \in DOMAIN vd <=> s \cup f # {}
                /\ s # {} => vd["biocontainers_keywords"] = Candidates(item)[Min(s)]
                /\ (s = {} /\ f # {}) =>
                      vd["biocontainers_keywords"] =
                          FragmentMatch(Candidates(item)[Min(f)], rules).group

\* keywords [Metagenome, otu] with the strict term OTU and the fragment metage.*: the
\* second candidate is recorded although the first one matches a fragment
C16_Witness ==
    \E i \in Processed :
        LET item == tools[i].item
            s == StrictCandidates(item, rules)
            f == FragmentCandidates(item, rules)
        IN  /\ s # {} /\ f # {} /\ Min(f) < Min(s)
            /\ "biocontainers_keywords" \in DOMAIN tools[i].validation_data
            /\ tools[i].validation_data["biocontainers_keywords"] = Candidates(item)[Min(s)]

----------------------------------------------------------------------------
(* C17: the free-text check examines the description sources in one fixed      *)
(* priority order, bio.tools first, then BioContainers, then Galaxy, skipping  *)
(* empty sources, and records the match under the first source that matches;   *)
(* both filter variants use this order, and it is the order used to choose     *)
(* the TSV description.                                                        *)

SourceOrder == <<"biotools", "biocontainers", "galaxy">>

\* the sources whose description the script's own search finds a match in
MatchingSources(v, item, R) ==
    {k \in 1..3 :
        LET content == RawDescription(item, SourceOrder[k])
        IN  IF v = 1 THEN search_description(content, R).found
            ELSE /\ search_keywords_in_content(content, R).found
                 /\ search_keywords_in_content(content, R).group # <<>>}

\* the sources of a kept entry whose full description is not empty
DescribedSources(entry) ==
    {k \in 1..3 : entry[SourceOrder[k] \o "_description_full"] # <<>>}

C17_DescriptionSourceOrder ==
    /\ \A i \in Processed :
          LET m == MatchingSources(variant, tools[i].item, rules)
              vd == tools[i].validation_data
          IN  (LevelsIn(vd) = {3} /\ m # {}) =>
                  LevelKeys(3) \cap DOMAIN vd = {DescriptionKey[SourceOrder[Min(m)]]}
    /\ (command = "run_filtering" /\ pc = "done") =>
          \A i \in 1..Len(disk.tsv) :
              LET entry == disk.validated[i]
                  d == DescribedSources(entry)
              IN  d # {} =>
                      disk.tsv[i].description = entry[SourceOrder[Min(d)] \o "_description_full"]

----------------------------------------------------------------------------
(* C18: exports are reproducible and idempotent: running run_filtering twice   *)
(* in succession on the same root directory with the same rule set produces    *)
(* the same kept-entities JSON, the same discarded-entities JSON and the same  *)
(* counts report both times.                                                   *)

SecondRunDone == command = "run_filtering" /\ rerun = "second" /\ pc = "done"

C18_SameExportsTwice ==
    SecondRunDone =>
        /\ disk.validated = first_disk.validated
        /\ disk.failed = first_disk.failed
        /\ disk.report = first_disk.report

----------------------------------------------------------------------------
(* C19: physical deletion of the directories backing discarded tools is        *)
(* explicitly gated: unless deletion has been explicitly opted into,           *)
(* run_filtering deletes no directory.                                         *)

\* the scripts read no command-line option, environment variable or
\* confirmation: __main__ fixes the paths and calls run_filtering
deletion_opted_in == FALSE

C19_DeletionGated ==
    (command = "run_filtering" /\ deleted # {}) => deletion_opted_in

----------------------------------------------------------------------------
(* C21: import / export round trip: Workflow.init_by_importing restores every  *)
(* field of a dictionary produced by Workflows.export_workflows_to_dict,       *)
(* including keep, curation_date and filtered_on, so importing an exported     *)
(* workflow and exporting it again yields the same dictionary.                 *)

\* Workflow(): the object as __init__ leaves it
NewWorkflow == Workflow("", <<>>, <<>>, <<>>, <<>>, <<>>, FALSE)

\* Workflow.init_by_importing: the listed keys are copied, keep only when the
\* dictionary has it; no other attribute is assigned
init_by_importing(self, wf) ==
    [self EXCEPT !.link = wf.link, !.name = wf.name, !.tags = wf.tags,
                 !.edam_operation = wf.edam_operation, !.edam_topic = wf.edam_topic,
                 !.description = wf.description,
                 !.keep = IF "keep" \in DOMAIN wf THEN wf.keep ELSE self.keep]

\* Workflows.export_workflows_to_dict: [w.__dict__ for w in self.workflows]
export_workflows_to_dict(ws, objs) == [i \in 1..Len(ws) |-> objs[ws[i]]]

\* Workflows.init_by_importing followed by export_workflows_to_dict
reexport(wfs_to_import) ==
    [i \in 1..Len(wfs_to_import) |-> init_by_importing(NewWorkflow, wfs_to_import[i])]

C21_ImportExportRoundTrip ==
    command \in {"filter_workflows", "curate_workflows"} =>
        \A exported \in {export_workflows_to_dict(workflows, wf_objs)} :
            reexport(exported) = exported

----------------------------------------------------------------------------
(* C22: a newly created Workflow has keep = False, filtered_on = "" and        *)
(* curation_date equal to the sentinel "0000-00-00", and                       *)
(* Workflow.update_status copies both the keep decision ("To keep") and the    *)
(* curation date ("Curation date") from the status entry into the workflow     *)
(* while leaving every other field unchanged.                                  *)

\* getattr(w, "curation_date"): <<"AttributeError">> when the object has no such attribute
curation_date_of(w) ==
    IF "curation_date" \in DOMAIN w THEN w.curation_date ELSE <<"AttributeError">>

\* the workflows update_status has been called on with a status row that has a date
DatedWorkflows ==
    {ref \in 1..Len(wf_objs) :
        /\ \/ ref \in HandledWorkflows
           \/ command = "curate_workflows" /\ pc = "done"
        /\ wf_objs[ref].link \in DOMAIN wf_status
        /\ "Curation date" \in DOMAIN wf_status[wf_objs[ref].link]}

C22_StatusCopied ==
    \A ref \in DatedWorkflows :
        LET row == wf_status[wf_objs[ref].link]
        IN  /\ wf_objs[ref].keep = row["To keep"]
            /\ curation_date_of(wf_objs[ref]) = row["Curation date"]
            /\ wf_objs[ref].link = Links[ref]

----------------------------------------------------------------------------
(* C23: generate_tsv_summary writes exactly one row per kept Tool, and in each *)
(* row filtered_on and reason identify the criterion key and value recorded    *)
(* by the check that produced that Tool's keep decision; no row of a kept      *)
(* Tool carries the placeholders "UNKNOWN_REASON" / "N/A - Not Matched".       *)

\* the kept Tools of the run, in processing order
KeptTools ==
    LET K == {i \in 1..Len(tools) : tools[i].keep}
    IN  [j \in 1..Cardinality(K) |-> CHOOSE i \in K : Cardinality({x \in K : x < i}) = j - 1]

\* the rows of the TSV file (none when the file was not written)
TsvRows == IF "tsv" \in disk.files THEN disk.tsv ELSE <<>>

C23_OneReasonedRowPerKeptTool ==
    (command = "run_filtering" /\ pc = "done") =>
        \A kept \in {KeptTools} :
            /\ Len(TsvRows) = Len(kept)
            /\ \A j \in 1..Len(kept) :
                  LET vd == tools[kept[j]].validation_data
                      row == TsvRows[j]
                  IN  /\ row.tool_id = tools[kept[j]].item.tool_id
                      /\ row.filtered_on # "UNKNOWN_REASON"
                      /\ row.reason # s_not_matched
                      /\ row.filtered_on \in DOMAIN vd
                      /\ \E k \in LevelsIn(vd) : row.filtered_on \in LevelKeys(k)
                      /\ row.reason = vd[row.filtered_on] \o REASON_MAPPING[row.filtered_on]

----------------------------------------------------------------------------
(* C24: for a workflow that is not kept by its status entry,                   *)
(* filter_workflows_by_tags tries the EDAM check, then the tags check, then    *)
(* the name check, then the description check, stopping at the first success,  *)
(* so that afterwards filtered_on holds only the reason of the first check in  *)
(* that order that matches and is left unchanged by checks that fail.          *)

CheckOrder == <<"test_edam_terms", "test_tags", "test_name", "test_description">>

\* the outcome of each check called alone on the workflow, in the order of CheckOrder
ChecksAlone(w, keywords) ==
    <<IF Unusable(keywords, "edam") THEN Raised ELSE test_edam_terms(w, keywords.edam),
      test_tags(w, keywords), test_name(w, keywords), test_description(w, keywords)>>

\* the workflows the loop has gone through without an exception and without the
\* `if w.keep` branch
AutomaticWorkflows ==
    {ref \in 1..Len(wf_objs) :
        command = "filter_workflows" /\ ref <= wf_i /\ ~wf_objs[ref].keep}

C24_FirstSuccessStops ==
    \A ref \in AutomaticWorkflows :
        \A alone \in {ChecksAlone(wf_objs[ref], keywords_yml)} :
            LET matching == {i \in 1..4 : alone[i].ok}
            IN  IF matching = {}
                THEN /\ wf_calls[ref] = CheckOrder
                     /\ wf_objs[ref].filtered_on = <<>>
                     /\ \A k \in 1..Len(to_keep_wf) : to_keep_wf[k] # ref
                ELSE /\ wf_calls[ref] = SubSeq(CheckOrder, 1, Min(matching))
                     /\ wf_objs[ref].filtered_on = alone[Min(matching)].filtered_on
                     /\ wf_objs[ref].filtered_on # <<>>
                     /\ \E k \in 1..Len(to_keep_wf) : to_keep_wf[k] = ref

\* a workflow whose first checks fail, whose later check matches, and for which a check
\* after the first match would match too
C24_Witness ==
    \E ref \in AutomaticWorkflows :
        LET alone == ChecksAlone(wf_objs[ref], keywords_yml)
            matching == {i \in 1..4 : alone[i].ok}
        IN  /\ Cardinality(matching) >= 2
            /\ Min(matching) >= 2
            /\ Len(wf_calls[ref]) = Min(matching)
            /\ \E i \in matching : alone[i].filtered_on # wf_objs[ref].filtered_on

----------------------------------------------------------------------------
(* C25: BiocondaRecipe.test_about returns true exactly when the recipe's       *)
(* description or summary contains a configured keyword (case-insensitive,     *)
(* not flanked by letters) or a configured acronym as a whole word in its      *)
(* configured case; in particular a recipe whose description contains the      *)
(* acronym "OTU" and no keyword is kept by filter_by_keywords.                 *)

\* the text test_about is about: description and summary as the recipe holds them
AboutText(recipe) == recipe.description \o <<32>> \o recipe.summary

ContainsKeyword(text, keywords) ==
    \E i \in 1..Len(keywords.keywords) : format_regex_search(keywords.keywords[i], text, TRUE)
ContainsAcronym(text, keywords) ==
    \E i \in 1..Len(keywords.acronyms) : format_regex_search(keywords.acronyms[i], text, FALSE)

\* the recipes the loop of filter_by_keywords has gone through without an exception and
\* without a keep taken from the status table or the JSON
AutomaticRecipes ==
    {ref \in 1..Len(rc_objs) :
        command = "filter_recipes" /\ ref <= rc_i /\ ~rc_objs[ref].keep}

C25_AboutMatchesKeywordOrAcronym ==
    \A ref \in AutomaticRecipes :
        (\E k \in 1..Len(filtered_recipes) : filtered_recipes[k] = ref)
            <=> \/ ContainsKeyword(AboutText(rc_objs[ref]), keywords_yml)
                \/ ContainsAcronym(AboutText(rc_objs[ref]), keywords_yml)

----------------------------------------------------------------------------
(* C26: utils.get_request_json makes at most `retries` attempts and always     *)
(* terminates: it returns the JSON of the first successful attempt; after a    *)
(* connection error it waits and retries; after the retries-th consecutive     *)
(* connection error it raises ConnectionError; any other request error ends    *)
(* the call immediately with SystemExit without a retry; with retries >= 1 it  *)
(* never returns the empty dictionary.                                         *)

\* the connection to the server failed, whichever exception class reports it
ConnectionErrors == {"ConnectionError", "requests.ConnectionError"}

\* request errors that are no connection errors
OtherRequestErrors == {"HTTPError"}

RequestCall == command = "get_request_json"

C26_RetryOnConnectionError ==
    RequestCall =>
        LET n == Len(rq_outcomes)
        IN  /\ n <= retries
            /\ rq_result = "json" => rq_outcomes[n] = "json"
            \* every attempt before the last one failed on the connection and was
            \* followed by a wait
            /\ \A i \in 1..(n - 1) : rq_outcomes[i] \in ConnectionErrors
            /\ (n >= 1 /\ rq_outcomes[n] \in ConnectionErrors /\ n < retries) =>
                   /\ pc = "request"
                   /\ rq_slept = n
            /\ (n >= 1 /\ rq_outcomes[n] \in ConnectionErrors /\ n = retries) =>
                   rq_result = "ConnectionError"
            /\ (n >= 1 /\ rq_outcomes[n] \in OtherRequestErrors) =>
                   rq_result = "SystemExit" /\ rq_slept = n - 1
            /\ retries >= 1 => rq_result # "empty"

----------------------------------------------------------------------------
(* C27: counter conservation in run_filtering: after every loop iteration and  *)
(* at the end, total_folders = validated_filter_1 + validated_filter_2 +       *)
(* validated_filter_3 + did_not_pass_any, and in the final report total kept   *)
(* + total deleted = total folders analysed, with total kept equal to the      *)
(* number of entries in the kept JSON.                                         *)

\* the entries of the kept-entities JSON (none when the file does not exist)
KeptJson == IF "validated" \in disk.files THEN disk.validated ELSE <<>>

\* _finalize_operation has written the report of this run
ReportWritten == command = "run_filtering" /\ pc \in {"summary", "done"}

C27_CountersConserved ==
    /\ command = "run_filtering" =>
          /\ report_counts.total_folders =
                report_counts.validated_filter_1 + report_counts.validated_filter_2
                    + report_counts.validated_filter_3 + report_counts.did_not_pass_any
          /\ report_counts.total_folders = Len(tools)
    /\ ReportWritten =>
          /\ "report" \in disk.files
          /\ disk.report.counts = report_counts
          /\ disk.report.total_kept + disk.report.total_deleted
                = disk.report.counts.total_folders
          /\ disk.report.counts.total_folders = Len(items)
          /\ disk.report.total_kept = Len(KeptJson)

\* a finished run that kept Tools at two levels and discarded one
C27_Witness ==
    /\ ReportWritten
    /\ disk.report.total_kept >= 2
    /\ disk.report.total_deleted >= 1
    /\ disk.report.counts.validated_filter_1 >= 1
    /\ disk.report.counts.validated_filter_3 >= 1
    /\ Len(KeptJson) = disk.report.total_kept

----------------------------------------------------------------------------
(* C28: deletion safety and ordering in ToolSet.run_filtering: the folders     *)
(* passed to deletion are exactly the folders of the Tools whose keep is       *)
(* false, the folder of a kept Tool is never deleted, the output directory is  *)
(* never processed or deleted, and no folder is deleted before every Tool has  *)
(* been evaluated and the kept and discarded JSON files have been written.     *)

\* the folders of the Tools evaluated so far whose keep is b
FoldersWithKeep(b) == {tools[i].item.tool_id : i \in {j \in 1..Len(tools) : tools[j].keep = b}}

\* the entries of the discarded-entities JSON (none when the file does not exist)
FailedJson == IF "failed" \in disk.files THEN disk.failed ELSE <<>>

\* the JSON files hold the data of every Tool: filter_rsec.py has written both files,
\* filter_rsec_2.py has stored the data of each Tool in the file of its decision
MetadataWritten ==
    /\ KeptJson = validated_metadata_list
    /\ FailedJson = failed_metadata_list
    /\ Len(KeptJson) + Len(FailedJson) = Len(tools)
    /\ variant = 1 => {"validated", "failed"} \subseteq disk.files

DeletionSafe ==
    command = "run_filtering" =>
        /\ Range(subfolders_to_delete) = FoldersWithKeep(FALSE)
        /\ FoldersWithKeep(TRUE) \cap deleted = {}
        /\ OUTPUT_DIR \notin deleted \cup Range(subfolders_to_delete)
        /\ \A i \in 1..Len(tools) : tools[i].item.tool_id # OUTPUT_DIR

DeletionOrdered ==
    deleted' # deleted =>
        /\ Len(tools) = Len(items)
        /\ MetadataWritten
        /\ deleted' = deleted \cup FoldersWithKeep(FALSE)

----------------------------------------------------------------------------
(* C29: Workflows.filter_workflows_by_tags completes without error for every   *)
(* workflow and every status table, also for a workflow whose imported keep is *)
(* already true while its link has no row in the status table, or whose row    *)
(* has no "Filtered on" value: such a workflow is kept and the batch goes on.  *)

\* the workflow the loop of filter_workflows_by_tags has stopped on
StoppedOn == workflows[wf_i + 1]

\* a workflow with keep true and no "Filtered on" value to copy
KeptWithoutFilteredOn(ref) ==
    /\ wf_objs[ref].keep
    /\ \/ wf_objs[ref].link \notin DOMAIN wf_status
       \/ "Filtered on" \notin DOMAIN wf_status[wf_objs[ref].link]

C29_FilterCompletes ==
    command = "filter_workflows" =>
        /\ pc # "error"
        /\ pc = "done" =>
              \A ref \in 1..Len(wf_objs) : KeptWithoutFilteredOn(ref) => ref \in Range(workflows)

\* the loop has raised on a kept workflow that has no "Filtered on" value
C29_KeyErrorReached ==
    /\ command = "filter_workflows" /\ pc = "error"
    /\ KeptWithoutFilteredOn(StoppedOn)
    /\ wf_calls[StoppedOn] = <<>>

----------------------------------------------------------------------------
(* C30: the two filter variants agree: for every Tool and every rule set,      *)
(* filter_rsec.Tool.run_checks and filter_rsec_2.Tool.run_checks reach the     *)
(* same keep decision and attribute it to the same check level, so that both   *)
(* scripts delete the same folders and report the same four counts on the      *)
(* same input.                                                                 *)

\* what run_checks of the other script makes of the folder of the i-th Tool
OtherVariant(i) == RunChecksOf(3 - variant, Tool(tools[i].item), rules)

\* the Tools the other script keeps at level k, and those it discards
OtherKeptAt(k) ==
    {i \in 1..Len(tools) : OtherVariant(i).keep /\ k \in LevelsIn(OtherVariant(i).validation_data)}
OtherDiscarded == {i \in 1..Len(tools) : ~OtherVariant(i).keep}

C30_VariantsAgree ==
    /\ \A i \in Processed :
          /\ first_run[i].keep = OtherVariant(i).keep
          /\ LevelsIn(first_run[i].validation_data) = LevelsIn(OtherVariant(i).validation_data)
    /\ command = "run_filtering" =>
          /\ Range(subfolders_to_delete) = {tools[i].item.tool_id : i \in OtherDiscarded}
          /\ report_counts.validated_filter_1 = Cardinality(OtherKeptAt(1))
          /\ report_counts.validated_filter_2 = Cardinality(OtherKeptAt(2))
          /\ report_counts.validated_filter_3 = Cardinality(OtherKeptAt(3))
          /\ report_counts.did_not_pass_any = Cardinality(OtherDiscarded)

\* filter_rsec.py has discarded a folder that filter_rsec_2.py keeps at level 3
C30_Disagreement ==
    /\ command = "run_filtering" /\ variant = 1 /\ pc = "done"
    /\ \E i \in 1..Len(tools) :
          /\ ~tools[i].keep
          /\ tools[i].item.tool_id \in deleted
          /\ OtherVariant(i).keep
          /\ LevelsIn(OtherVariant(i).validation_data) = {3}

====
